---- MODULE Spec2Model ----
(***************************************************************************)
(* A model of the numerical core of the AC susceptibility calculator:      *)
(*   - circuit/circuit.py, circuit/simple.py : the series Circuit and its  *)
(*     Newton-Raphson current solver                                       *)
(*   - field/vector_field.py : the VectorField container and its algebra   *)
(*   - material.py : the Material description, its accessors and the       *)
(*     B field of an applied H field                                       *)
(*   - field/coil.py, field/simple_coil.py, field/loop.py : the checks of  *)
(*     the coil constructors                                               *)
(*   - gui/calculation.py : the calculation entry point run_calculation    *)
(* Phasors are complex numbers; the model computes with exact complex      *)
(* rationals (re/den + j*im/den), so floating point rounding is not part   *)
(* of the model.  A VectorField's interpolator (scipy's                    *)
(* LinearNDInterpolator) is computed exactly: barycentric interpolation in *)
(* the Delaunay tetrahedron that holds the position, NaN outside the hull. *)
(***************************************************************************)
EXTENDS Integers, Sequences, FiniteSets, TLC

VARIABLES
    \* a Circuit, and the frame of its calculate_current call
    ohmic_elements, nonohmic_elements, inserted, calc,
    \* a VectorField (self), the outcome of the last operation on it, and a file
    points, values, interp, ndims, last, file,
    \* a Material, the outcome of the last accessor called on it, and the frame of
    \* its calculate_B_field_from_H_field call
    material, mcall, bfield,
    \* the outcome of the last coil constructor, and of the last run_calculation
    coil, run,
    \* the frame of the calculate_induced_voltage call on the coil
    induced

circuitVars == <<ohmic_elements, nonohmic_elements, inserted, calc>>

fieldVars == <<points, values, interp, ndims, last, file>>

materialVars == <<material, mcall, bfield>>

deviceVars == <<coil, run, induced>>

vars == <<ohmic_elements, nonohmic_elements, inserted, calc,
          points, values, interp, ndims, last, file,
          material, mcall, bfield, coil, run, induced>>

----------------------------------------------------------------------------
(* Bounds of the model *)

\* largest number of elements a circuit is given
MaxElements == 3
\* largest length of the list handed to the Circuit constructor
MaxInitElements == 1
\* resistances, inductances, capacitances and slopes are drawn from 0..MaxParam
MaxParam == 2
\* angular frequencies are drawn from 0..MaxFreq
MaxFreq == 1
\* value dimensions d of a VectorField are drawn from 1..MaxDim
MaxDim == 2
\* largest number of mutations (add_data_points, in-place operators) of a VectorField
MaxOps == 1
\* largest number of (phasor, frequency) pairs handed to calculate_B_field_from_H_field
MaxInputs == 2
\* the angular frequencies of the H field are drawn from 0..MaxOmega
MaxOmega == 3
\* N_time is drawn from 0..MaxNTime
MaxNTime == 3
\* a Newton-Raphson loop is followed for its first and for its last MaxNewtonSteps
\* iterations
MaxNewtonSteps == 30

----------------------------------------------------------------------------
(* Exact arithmetic on rationals <<n, d>> (d > 0) and complex rationals *)

Abs(n) == IF n < 0 THEN -n ELSE n

Sign(n) == IF n < 0 THEN -1 ELSE IF n > 0 THEN 1 ELSE 0

RECURSIVE GCD(_, _)
GCD(a, b) == IF b = 0 THEN a ELSE GCD(b, a % b)

\* the complex number (re + j*im)/den in lowest terms, den > 0
Cx(re, im, den) ==
    LET g == GCD(GCD(Abs(re), Abs(im)), Abs(den))
        s == IF den < 0 THEN -1 ELSE 1
    IN  [re |-> (s * re) \div g, im |-> (s * im) \div g, den |-> Abs(den) \div g]

CInt(n) == Cx(n, 0, 1)

CZero == CInt(0)

CJ == Cx(0, 1, 1)

CIsZero(x) == x.re = 0 /\ x.im = 0

CAdd(x, y) == Cx(x.re * y.den + y.re * x.den, x.im * y.den + y.im * x.den, x.den * y.den)

CNeg(x) == Cx(-x.re, -x.im, x.den)

CSub(x, y) == CAdd(x, CNeg(y))

CMul(x, y) == Cx(x.re * y.re - x.im * y.im, x.re * y.im + x.im * y.re, x.den * y.den)

CConj(x) == Cx(x.re, -x.im, x.den)

\* x / y for y # 0
CDiv(x, y) ==
    Cx((x.re * y.re + x.im * y.im) * y.den,
       (x.im * y.re - x.re * y.im) * y.den,
       x.den * (y.re * y.re + y.im * y.im))

\* |x|^2 as a rational <<n, d>>
AbsSq(x) == <<x.re * x.re + x.im * x.im, x.den * x.den>>

RAdd(p, q) == <<p[1] * q[2] + q[1] * p[2], p[2] * q[2]>>

RMul(p, q) == <<p[1] * q[1], p[2] * q[2]>>

RLess(p, q) == p[1] * q[2] < q[1] * p[2]

----------------------------------------------------------------------------
(* Python outcomes: a call returns a value or raises *)

Returned(v) == [ok |-> TRUE, val |-> v, exc |-> "none"]

Raised(e) == [ok |-> FALSE, val |-> CZero, exc |-> e]

----------------------------------------------------------------------------
(* Circuit elements (circuit/circuit_element.py, circuit/simple.py).  An    *)
(* element is [kind, param, id]; id is the position of its insertion.      *)
(* "LinearNonOhmic" is an implementation of the CircuitElement interface    *)
(* that answers is_ohmic() = False, get_voltage(w, I) = param * I and       *)
(* get_diff_impedance(w, I) = param.                                        *)

OhmicKinds == {"Resistor", "Inductor", "Capacitor"}

ElementSpecs ==
    [kind : {"Resistor"}, param : 0..MaxParam]
    \cup [kind : {"Inductor", "Capacitor"}, param : {1}]
    \cup [kind : {"LinearNonOhmic"}, param : 1..MaxParam]

Element(spec, n) == [kind |-> spec.kind, param |-> spec.param, id |-> n]

AngFreqs == 0..MaxFreq

Voltages == {CInt(0), CInt(1), CJ}

is_ohmic(e) == e.kind \in OhmicKinds

\* Resistor: resistance;  Inductor: 1j * w * L;  Capacitor: (-1j) / (w * C)
get_impedance(e, w) ==
    CASE e.kind = "Resistor" -> Returned(CInt(e.param))
      [] e.kind = "Inductor" -> Returned(CMul(CJ, CInt(w * e.param)))
      [] e.kind = "Capacitor" ->
            IF w * e.param = 0 THEN Raised("ZeroDivisionError")
            ELSE Returned(CDiv(CNeg(CJ), CInt(w * e.param)))
      [] OTHER -> Raised("TypeError")

\* "CubicNonOhmic" answers get_voltage(w, I) = I^3 - 6*I + param and
\* get_diff_impedance(w, I) = 3*I^2 - 6
get_voltage(e, w, current) ==
    IF e.kind = "CubicNonOhmic"
    THEN CAdd(CSub(CMul(current, CMul(current, current)), CMul(CInt(6), current)),
              CInt(e.param))
    ELSE CMul(CInt(e.param), current)

get_diff_impedance(e, w, current) ==
    IF e.kind = "CubicNonOhmic"
    THEN CSub(CMul(CInt(3), CMul(current, current)), CInt(6))
    ELSE CInt(e.param)

----------------------------------------------------------------------------
(* Circuit (circuit/circuit.py) *)

EPSILON == Cx(1, 0, 10000)

\* 1 / EPSILON^2
InvEpsilonSq == 100000000

MAX_ITER == 10000000

Idle ==
    [pc |-> "idle", ang_freq |-> 0, voltage |-> CZero, total_impedance |-> CZero,
     guess |-> CZero, delta |-> [z |-> CZero, plus |-> 0], i |-> 0, ret |-> Returned(CZero)]

\* Insert with the capability check dropped: every element lands in ohmic_elements
InsertIgnoringKind(lists, e) ==
    [ohmic |-> Append(lists.ohmic, e), nonohmic |-> lists.nonohmic]

\* append one element to the list its is_ohmic() answer selects
Insert(lists, e) ==
    IF is_ohmic(e)
    THEN [ohmic |-> Append(lists.ohmic, e), nonohmic |-> lists.nonohmic]
    ELSE [ohmic |-> lists.ohmic, nonohmic |-> Append(lists.nonohmic, e)]

RECURSIVE InsertAll(_, _)
InsertAll(lists, elements) ==
    IF elements = <<>> THEN lists
    ELSE InsertAll(Insert(lists, Head(elements)), Tail(elements))

RECURSIVE SeqsUpTo(_, _)
SeqsUpTo(S, n) ==
    IF n = 0 THEN {<<>>}
    ELSE LET shorter == SeqsUpTo(S, n - 1)
         IN  shorter \cup {Append(q, x) : q \in {r \in shorter : Len(r) = n - 1}, x \in S}

Numbered(specs) == [k \in 1..Len(specs) |-> Element(specs[k], k)]

\* Circuit.__init__(elements)
CircuitInit ==
    \E specs \in SeqsUpTo(ElementSpecs, MaxInitElements) :
        LET lists == InsertAll([ohmic |-> <<>>, nonohmic |-> <<>>], Numbered(specs))
        IN  /\ ohmic_elements = lists.ohmic
            /\ nonohmic_elements = lists.nonohmic
            /\ inserted = Numbered(specs)
            /\ calc = Idle

\* Circuit.add_element(element)
add_element(spec) ==
    /\ calc.pc # "loop"
    /\ Len(inserted) < MaxElements
    /\ LET e == Element(spec, Len(inserted) + 1)
           lists == Insert([ohmic |-> ohmic_elements, nonohmic |-> nonohmic_elements], e)
       IN  /\ ohmic_elements' = lists.ohmic
           /\ nonohmic_elements' = lists.nonohmic
           /\ inserted' = Append(inserted, e)
    /\ calc' = Idle
    /\ UNCHANGED <<fieldVars, materialVars, deviceVars>>

\* SumImpedance with "=" in place of "+=": the last impedance overwrites the total
RECURSIVE SumImpedanceOverwriting(_, _, _)
SumImpedanceOverwriting(elements, w, acc) ==
    IF elements = <<>> THEN Returned(acc)
    ELSE LET z == get_impedance(Head(elements), w)
         IN  IF z.ok THEN SumImpedanceOverwriting(Tail(elements), w, z.val) ELSE z

\* the sum of get_impedance over a list; the first exception ends it
RECURSIVE SumImpedance(_, _, _)
SumImpedance(elements, w, acc) ==
    IF elements = <<>> THEN Returned(acc)
    ELSE LET z == get_impedance(Head(elements), w)
         IN  IF z.ok THEN SumImpedance(Tail(elements), w, CAdd(acc, z.val)) ELSE z

RECURSIVE SumVoltage(_, _, _)
SumVoltage(elements, w, current) ==
    IF elements = <<>> THEN CZero
    ELSE CAdd(get_voltage(Head(elements), w, current), SumVoltage(Tail(elements), w, current))

RECURSIVE SumDiffImpedance(_, _, _)
SumDiffImpedance(elements, w, current) ==
    IF elements = <<>> THEN CZero
    ELSE CAdd(get_diff_impedance(Head(elements), w, current),
              SumDiffImpedance(Tail(elements), w, current))

\* delta > EPSILON * abs(guess), where delta = abs(d.z) + d.plus, d.plus in {0, 1};
\* abs(guess) + 1.0 exceeds EPSILON * abs(guess) for every guess
DeltaExceeds(d, guess) ==
    LET zz == AbsSq(d.z)
        gg == AbsSq(guess)
    IN  IF d.plus = 0
        THEN zz[1] * gg[2] > (gg[1] * zz[2]) \div InvEpsilonSq
        ELSE TRUE

\* the loop condition without the iteration cap
LoopCondition_Uncapped(c) == DeltaExceeds(c.delta, c.guess)

LoopCondition(c) == DeltaExceeds(c.delta, c.guess) /\ c.i < MAX_ITER

\* calculate_current up to the loop: lines 54-68
CalcStart(w, V) ==
    /\ calc.pc # "loop"
    /\ LET tz == SumImpedance(ohmic_elements, w, CZero)
           frame == [Idle EXCEPT !.ang_freq = w, !.voltage = V]
       IN  calc' =
             IF ~tz.ok THEN [frame EXCEPT !.pc = "done", !.ret = tz]
             ELSE IF Len(nonohmic_elements) = 0
             THEN [frame EXCEPT !.pc = "done", !.total_impedance = tz.val,
                                !.ret = IF CIsZero(tz.val) THEN Raised("ZeroDivisionError")
                                        ELSE Returned(CDiv(V, tz.val))]
             ELSE LET g == IF CIsZero(tz.val) THEN CZero ELSE CDiv(V, tz.val)
                  IN  [frame EXCEPT !.pc = "loop", !.total_impedance = tz.val, !.guess = g,
                                    !.delta = [z |-> g, plus |-> 1], !.i = 0]
    /\ UNCHANGED <<ohmic_elements, nonohmic_elements, inserted>>
    /\ UNCHANGED <<fieldVars, materialVars, deviceVars>>

\* lines 71 and 74: f(x)
NewtonValue(c) ==
    CAdd(CSub(CMul(c.total_impedance, c.guess), c.voltage),
         SumVoltage(nonohmic_elements, c.ang_freq, c.guess))

\* lines 72 and 75: f'(x)
SummedGradient(c) ==
    CAdd(c.total_impedance, SumDiffImpedance(nonohmic_elements, c.ang_freq, c.guess))

\* the gradient used without the guard of lines 76-77
NewtonGradient_Unguarded(c) == SummedGradient(c)

\* lines 76-77: a gradient of zero is moved by EPSILON
NewtonGradient(c) ==
    IF CIsZero(SummedGradient(c)) THEN CAdd(SummedGradient(c), EPSILON)
    ELSE SummedGradient(c)

\* lines 78-80 with the gradient g: the new guess, the change, the counter
Stepped(c, value, g) ==
    IF CIsZero(g)
    THEN [c EXCEPT !.pc = "done", !.ret = Raised("ZeroDivisionError")]
    ELSE IF CIsZero(CMul(g, CSub(c.guess, CDiv(value, g))))
    THEN [c EXCEPT !.pc = "done", !.guess = CSub(c.guess, CDiv(value, g)),
                   !.ret = Raised("ZeroDivisionError")]
    ELSE [c EXCEPT !.guess = CSub(c.guess, CDiv(value, g)),
                   !.delta = [z |-> CDiv(value, CMul(g, CSub(c.guess, CDiv(value, g)))),
                              plus |-> 0],
                   !.i = c.i + 1]

\* one pass through the body of the while loop: lines 71-80
NewtonStep ==
    /\ calc.pc = "loop"
    /\ LoopCondition(calc)
    /\ calc.i < MaxNewtonSteps \/ calc.i >= MAX_ITER - MaxNewtonSteps
    /\ calc' = Stepped(calc, NewtonValue(calc), NewtonGradient(calc))
    /\ UNCHANGED <<ohmic_elements, nonohmic_elements, inserted>>
    /\ UNCHANGED <<fieldVars, materialVars, deviceVars>>

\* the loop condition fails: line 82
NewtonReturn ==
    /\ calc.pc = "loop"
    /\ ~LoopCondition(calc)
    /\ calc' = [calc EXCEPT !.pc = "done", !.ret = Returned(calc.guess)]
    /\ UNCHANGED <<ohmic_elements, nonohmic_elements, inserted>>
    /\ UNCHANGED <<fieldVars, materialVars, deviceVars>>

calculate_current ==
    \/ \E w \in AngFreqs, V \in Voltages : CalcStart(w, V)
    \/ NewtonStep
    \/ NewtonReturn

CircuitNext ==
    \/ \E spec \in ElementSpecs : add_element(spec)
    \/ calculate_current

----------------------------------------------------------------------------
(* The Newton-Raphson loop of calculate_current on circuits with non-Ohmic  *)
(* elements of slope 0 and on a circuit whose iteration never converges     *)

LargeVoltage == 20000

\* Resistor(1) and a cubic element: with V = 1 the function solved is
\* f(I) = I^3 - 5*I, on which the iteration alternates between 1 and -1
CyclingCircuit ==
    <<[kind |-> "Resistor", param |-> 1], [kind |-> "CubicNonOhmic", param |-> 1]>>

NewtonCircuits ==
    {<<[kind |-> "Resistor", param |-> a], [kind |-> "LinearNonOhmic", param |-> b]>> :
        a \in 0..MaxParam, b \in 0..MaxParam}
    \cup {<<[kind |-> "LinearNonOhmic", param |-> b]>> : b \in 0..MaxParam}
    \cup {CyclingCircuit}

IsCycling == Len(nonohmic_elements) = 1 /\ nonohmic_elements[1].kind = "CubicNonOhmic"

\* the sum of the resistances and slopes is zero
ZeroSlope == \A k \in 1..Len(inserted) : inserted[k].param = 0

\* the resistances and slopes are 0 or 1
UnitSlopes == \A k \in 1..Len(inserted) : inserted[k].param <= 1

\* the source voltages: the large one on the circuits of resistance and slope 0 or 1
\* (not all 0), where the squares compared by the loop condition stay below 2^31
NewtonVoltages ==
    IF IsCycling THEN {CInt(1)}
    ELSE IF ZeroSlope \/ ~UnitSlopes THEN Voltages
    ELSE Voltages \cup {CInt(LargeVoltage)}

\* the loop of calculate_current(w, 1) on the cycling circuit before iteration
\* i + 1, i >= 1: guess is 1 after an even and -1 after an odd number of iterations,
\* and value / (gradient * guess) is -2
Orbit(w, i) ==
    [Idle EXCEPT !.pc = "loop", !.ang_freq = w, !.voltage = CInt(1),
                 !.total_impedance = CInt(1),
                 !.guess = IF i % 2 = 0 THEN CInt(1) ELSE CInt(-1),
                 !.delta = [z |-> CInt(-2), plus |-> 0], !.i = i]

\* Circuit(elements), not yet solved or MaxNewtonSteps iterations before the cap
NewtonInit ==
    \E specs \in NewtonCircuits :
        /\ ohmic_elements = SelectSeq(Numbered(specs), is_ohmic)
        /\ nonohmic_elements =
              InsertAll([ohmic |-> <<>>, nonohmic |-> <<>>], Numbered(specs)).nonohmic
        /\ inserted = Numbered(specs)
        /\ calc \in {Idle} \cup (IF specs = CyclingCircuit
                                 THEN {Orbit(w, MAX_ITER - MaxNewtonSteps) : w \in AngFreqs}
                                 ELSE {})

NewtonNext ==
    \/ \E w \in AngFreqs, V \in NewtonVoltages : CalcStart(w, V)
    \/ NewtonStep
    \/ NewtonReturn

----------------------------------------------------------------------------
(* Properties of the Newton-Raphson loop *)

\* the loop was entered and left through its condition, before the cap
C21_LeftBeforeCap ==
    /\ calc.pc = "done"
    /\ calc.ret.ok
    /\ nonohmic_elements # <<>>
    /\ calc.i < MAX_ITER

\* |dI| <= 1e-4 * |I| for the last step dI = value / gradient, which is
\* delta.z * guess: the guess is zero or |delta.z|^2 <= 1e-8
C21_StepSmall ==
    \/ CIsZero(calc.guess)
    \/ AbsSq(calc.delta.z)[1] <= AbsSq(calc.delta.z)[2] \div InvEpsilonSq

\* C21: whenever the Newton-Raphson loop of calculate_current is left before the
\* iteration cap, the last update step dI and the returned current I satisfy
\* |dI| <= 1e-4 * |I|.
C21_ExitWithinTolerance == C21_LeftBeforeCap => C21_StepSmall

\* what the loop condition gives: |dI / I| <= 1e-4 * |I|
C21_ExitCriterion == C21_LeftBeforeCap => ~DeltaExceeds(calc.delta, calc.guess)

\* a loop left after a step as large as the current it returns
C21_LargeStepWitness ==
    /\ C21_LeftBeforeCap
    /\ calc.i = 1
    /\ calc.ret.val = CInt(LargeVoltage \div 2)
    /\ calc.delta.z = CInt(1)

\* the cycling circuit follows its orbit
C22_OnOrbit ==
    (IsCycling /\ calc.pc = "loop" /\ calc.i >= 1) => calc = Orbit(calc.ang_freq, calc.i)

\* every pass through the loop body counts one iteration, below the cap
C22_Counted ==
    (calc.pc = "loop" /\ calc'.pc = "loop" /\ calc' # calc) =>
        /\ calc.i < MAX_ITER
        /\ calc'.i = calc.i + 1

\* at the cap the function returns the guess it has reached
C22_ReturnsAtCap ==
    (calc.pc = "loop" /\ calc.i >= MAX_ITER /\ calc' # calc) =>
        /\ calc'.pc = "done"
        /\ calc'.ret = Returned(calc.guess)

\* C22: calculate_current always terminates: the loop executes at most 10,000,000
\* iterations, and when the cap is reached without meeting the tolerance the
\* function returns the guess reached so far; it neither raises nor signals that it
\* did not converge.  (The iteration counter rises by one with every pass and no
\* pass starts at the cap, so MAX_ITER - i bounds the passes that remain.)
C22_TerminatesAtCap ==
    /\ [](calc.i <= MAX_ITER)
    /\ [](C22_OnOrbit)
    /\ [][C22_Counted]_vars
    /\ [][C22_ReturnsAtCap]_vars

\* the cap was reached with the tolerance not met, and the guess was returned
C22_Witness ==
    /\ IsCycling
    /\ calc.pc = "done"
    /\ calc.i = MAX_ITER
    /\ DeltaExceeds(calc.delta, calc.guess)
    /\ calc.ret = Returned(CInt(1))

\* the Newton-Raphson branch was taken: the Ohmic impedances were summed
C23_NewtonBranch ==
    /\ nonohmic_elements # <<>>
    /\ SumImpedance(ohmic_elements, calc.ang_freq, CZero).ok

\* C23: in the Newton-Raphson branch of calculate_current no iteration divides by
\* zero: a summed gradient of zero is nudged before use, so the solver never fails
\* with a division-by-zero error, for any source voltage, frequency, Ohmic impedance
\* total and set of non-Ohmic elements.
C23_NeverDividesByZero ==
    (calc.pc = "done" /\ C23_NewtonBranch) => calc.ret.ok

\* the part that holds: the gradient that line 78 divides by is never zero
C23_GradientNonzero ==
    (calc.pc = "loop" /\ LoopCondition(calc)) => ~CIsZero(NewtonGradient(calc))

\* with a source voltage other than zero the branch raises nothing
C23_NonzeroVoltageReturns ==
    (calc.pc = "done" /\ C23_NewtonBranch /\ ~CIsZero(calc.voltage)) => calc.ret.ok

\* a summed gradient of zero was nudged and the loop returned
C23_NudgedWitness ==
    /\ ZeroSlope
    /\ nonohmic_elements # <<>>
    /\ calc.pc = "done"
    /\ calc.ret.ok
    /\ calc.i = 1

----------------------------------------------------------------------------
(* Properties of the Circuit *)

RECURSIVE SeqSum(_)
SeqSum(zs) == IF zs = <<>> THEN CZero ELSE CAdd(Head(zs), SeqSum(Tail(zs)))

Impedances(w) == [k \in 1..Len(inserted) |-> get_impedance(inserted[k], w)]

ImpedancesDefined(w) == \A k \in 1..Len(inserted) : Impedances(w)[k].ok

ImpedanceTotal(w) == SeqSum([k \in 1..Len(inserted) |-> Impedances(w)[k].val])

\* |x - y| <= 1e-4 * |y|
WithinTolerance(x, y) ==
    LET dd == AbsSq(CSub(x, y))
        yy == AbsSq(y)
    IN  dd[1] * yy[2] <= (yy[1] * dd[2]) \div InvEpsilonSq

\* C1: in a circuit whose elements are all Ohmic, calculate_current(w, V) never
\* enters the Newton-Raphson loop, and when the impedances Z_k = get_impedance(w)
\* are defined and their sum is not zero it returns the current I with
\* I * (Z_1 + ... + Z_n) = V, that is exactly V / (Z_1 + ... + Z_n), after zero
\* iterations.  (When the sum is zero or an impedance is undefined the division
\* raises ZeroDivisionError.)
C1_OhmicClosedForm ==
    nonohmic_elements = <<>> =>
        /\ calc.pc # "loop"
        /\ calc.pc = "done" =>
              /\ calc.i = 0
              /\ calc.ret.ok <=> (ImpedancesDefined(calc.ang_freq)
                                   /\ ~CIsZero(ImpedanceTotal(calc.ang_freq)))
              /\ calc.ret.ok =>
                    CMul(calc.ret.val, ImpedanceTotal(calc.ang_freq)) = calc.voltage

C1_Witness ==
    /\ nonohmic_elements = <<>>
    /\ calc.pc = "done"
    /\ calc.ret.ok
    /\ Len(ohmic_elements) = 3
    /\ \E k \in 1..3 : ohmic_elements[k].kind = "Inductor"
    /\ \E k \in 1..3 : ohmic_elements[k].kind = "Resistor" /\ ohmic_elements[k].param > 0
    /\ calc.ang_freq > 0
    /\ calc.ret.val.im # 0

\* the circuit is one Resistor and one linear non-Ohmic element
ResistorAndLinear ==
    /\ Len(ohmic_elements) = 1
    /\ Len(nonohmic_elements) = 1
    /\ ohmic_elements[1].kind = "Resistor"
    /\ nonohmic_elements[1].kind = "LinearNonOhmic"

SeriesAnswer ==
    CDiv(calc.voltage, CInt(ohmic_elements[1].param + nonohmic_elements[1].param))

\* C2: for a circuit of one Resistor(R) and one non-Ohmic element with
\* get_voltage = r*I and get_diff_impedance = r, calculate_current(w, V) returns a
\* value within 1e-4 relative tolerance of V / (R + r), for every V, V = 0 included.
C2_LinearNewtonConverges ==
    (ResistorAndLinear /\ calc.pc = "done") =>
        /\ calc.ret.ok
        /\ WithinTolerance(calc.ret.val, SeriesAnswer)

\* C2 with the source voltage restricted to V # 0: the part of the claim the code meets
C2_NonzeroVoltageConverges ==
    (ResistorAndLinear /\ calc.pc = "done" /\ ~CIsZero(calc.voltage)) =>
        /\ calc.ret.ok
        /\ WithinTolerance(calc.ret.val, SeriesAnswer)

IsPrefix(p, q) == Len(p) <= Len(q) /\ SubSeq(q, 1, Len(p)) = p

IsNonOhmicElement(e) == ~is_ohmic(e)

C3_Partitioned ==
    /\ \A k \in 1..Len(inserted) : inserted[k].id = k
    /\ ohmic_elements = SelectSeq(inserted, is_ohmic)
    /\ nonohmic_elements = SelectSeq(inserted, IsNonOhmicElement)

C3_NeverMoved ==
    /\ IsPrefix(ohmic_elements, ohmic_elements')
    /\ IsPrefix(nonohmic_elements, nonohmic_elements')

\* C3: every inserted element is in exactly one of ohmic_elements and
\* nonohmic_elements, the one its is_ohmic() answer selects, once, in insertion
\* order; and no step (add_element, calculate_current) moves or removes an element:
\* each list only grows at its end.
C3_PartitionAtInsertion == [](C3_Partitioned) /\ [][C3_NeverMoved]_vars

C3_Witness ==
    /\ Len(inserted) = 3
    /\ is_ohmic(inserted[1]) /\ ~is_ohmic(inserted[2]) /\ is_ohmic(inserted[3])
    /\ calc.pc = "done"

----------------------------------------------------------------------------
(* numpy values and arrays (field/vector_field.py).  A complex128 value is  *)
(* a complex rational or NaN, the value np.isnan is true of; numpy divides  *)
(* by zero without raising and the quotient has a NaN part.  An array is    *)
(* [none, cols, rows]: None, or a rank-2 array of shape (Len(rows), cols).  *)

NaN == [re |-> 0, im |-> 0, den |-> 0]

IsNaN(x) == x.den = 0

NAdd(x, y) == IF IsNaN(x) \/ IsNaN(y) THEN NaN ELSE CAdd(x, y)

NSub(x, y) == IF IsNaN(x) \/ IsNaN(y) THEN NaN ELSE CSub(x, y)

NMul(x, y) == IF IsNaN(x) \/ IsNaN(y) THEN NaN ELSE CMul(x, y)

NDiv(x, y) == IF IsNaN(x) \/ IsNaN(y) \/ CIsZero(y) THEN NaN ELSE CDiv(x, y)

NConj(x) == IF IsNaN(x) THEN NaN ELSE CConj(x)

NoneArray == [none |-> TRUE, cols |-> 0, rows |-> <<>>]

Array(cols, rows) == [none |-> FALSE, cols |-> cols, rows |-> rows]

\* ndims = None
NoDims == 0

NoInterp == [none |-> TRUE, points |-> <<>>, values |-> NoneArray]

\* the state of a VectorField after lines 38-41
EmptyField == [points |-> NoneArray, values |-> NoneArray, interp |-> NoInterp, ndims |-> NoDims]

Outcome(status, f) == [status |-> status, f |-> f]

----------------------------------------------------------------------------
(* Positions in R^3, and the geometry of the interpolator *)

PosA == <<0, 0, 0>>
PosB == <<4, 0, 0>>
PosC == <<0, 4, 0>>
PosD == <<0, 0, 4>>
PosE == <<1, 1, 1>>
PosF == <<1, 2, 3>>

LexLess(p, q) ==
    \/ p[1] < q[1]
    \/ p[1] = q[1] /\ p[2] < q[2]
    \/ p[1] = q[1] /\ p[2] = q[2] /\ p[3] < q[3]

SortPositions(S) ==
    [k \in 1..Cardinality(S) |-> CHOOSE p \in S : Cardinality({q \in S : LexLess(q, p)}) = k - 1]

Range(q) == {q[k] : k \in 1..Len(q)}

FirstIndex(rows, p) == CHOOSE k \in 1..Len(rows) : rows[k] = p /\ \A j \in 1..(k - 1) : rows[j] # p

\* np.unique(rows, axis=0): the distinct rows in lexicographic order
UniqueRows(rows) == SortPositions(Range(rows))

\* np.unique(rows, return_index=True, axis=0)[1]: the first index of each distinct row
UniqueIndices(rows) == LET u == UniqueRows(rows) IN [k \in 1..Len(u) |-> FirstIndex(rows, u[k])]

VSub(a, b) == <<a[1] - b[1], a[2] - b[2], a[3] - b[3]>>

Det3(u, v, w) ==
    u[1] * (v[2] * w[3] - v[3] * w[2])
    - u[2] * (v[1] * w[3] - v[3] * w[1])
    + u[3] * (v[1] * w[2] - v[2] * w[1])

\* six times the signed volume of the tetrahedron a b c d
Orient(a, b, c, d) == Det3(VSub(b, a), VSub(c, a), VSub(d, a))

NormSq(v) == v[1] * v[1] + v[2] * v[2] + v[3] * v[3]

\* e is strictly inside the sphere through a, b, c, d iff Orient * InSphereDet < 0
InSphereDet(a, b, c, d, e) ==
    LET ra == VSub(a, e)
        rb == VSub(b, e)
        rc == VSub(c, e)
        rd == VSub(d, e)
    IN  - NormSq(ra) * Det3(rb, rc, rd) + NormSq(rb) * Det3(ra, rc, rd)
        - NormSq(rc) * Det3(ra, rb, rd) + NormSq(rd) * Det3(ra, rb, rc)

Tets(n) == {t \in (1..n) \X (1..n) \X (1..n) \X (1..n) : t[1] < t[2] /\ t[2] < t[3] /\ t[3] < t[4]}

\* the tetrahedra of the Delaunay triangulation of pts
DelaunayTets(pts) ==
    {t \in Tets(Len(pts)) :
        LET o == Orient(pts[t[1]], pts[t[2]], pts[t[3]], pts[t[4]])
        IN  /\ o # 0
            /\ \A q \in 1..Len(pts) :
                  q \in {t[1], t[2], t[3], t[4]}
                  \/ o * InSphereDet(pts[t[1]], pts[t[2]], pts[t[3]], pts[t[4]], pts[q]) >= 0}

OrientTet(pts, t) == Orient(pts[t[1]], pts[t[2]], pts[t[3]], pts[t[4]])

\* barycentric weights of p in t, each times OrientTet(pts, t)
Weights(pts, t, p) ==
    << Orient(p, pts[t[2]], pts[t[3]], pts[t[4]]),
       Orient(pts[t[1]], p, pts[t[3]], pts[t[4]]),
       Orient(pts[t[1]], pts[t[2]], p, pts[t[4]]),
       Orient(pts[t[1]], pts[t[2]], pts[t[3]], p) >>

SameSide(w, o) == \A k \in 1..4 : w[k] * o >= 0

Contains(pts, t, p) == SameSide(Weights(pts, t, p), OrientTet(pts, t))

\* the values at the corners of t weighted by w / o: a row of vals.cols values
Barycentric(vals, t, w, o) ==
    [c \in 1..vals.cols |->
        NDiv(NAdd(NAdd(NMul(CInt(w[1]), vals.rows[t[1]][c]),
                       NMul(CInt(w[2]), vals.rows[t[2]][c])),
                  NAdd(NMul(CInt(w[3]), vals.rows[t[3]][c]),
                       NMul(CInt(w[4]), vals.rows[t[4]][c]))),
             CInt(o))]

InterpolateIn(pts, vals, t, p) == Barycentric(vals, t, Weights(pts, t, p), OrientTet(pts, t))

\* the interpolant with fill_value = 0 in place of NaN
InterpolateAt_ZeroFill(pts, vals, tets, p) ==
    IF \A t \in tets : ~Contains(pts, t, p) THEN [c \in 1..vals.cols |-> CZero]
    ELSE InterpolateIn(pts, vals, CHOOSE t \in tets : Contains(pts, t, p), p)

\* the piecewise linear interpolant of (pts, vals) at p, NaN outside every tetrahedron
InterpolateAt(pts, vals, tets, p) ==
    IF \A t \in tets : ~Contains(pts, t, p) THEN [c \in 1..vals.cols |-> NaN]
    ELSE InterpolateIn(pts, vals, CHOOSE t \in tets : Contains(pts, t, p), p)

\* lines 59-64: the interpolator in use, built from the stored data when there is none
Interpolator(f) ==
    IF f.interp.none THEN [none |-> FALSE, points |-> f.points.rows, values |-> f.values]
    ELSE f.interp

\* lines 64-66: LinearNDInterpolator(points, values) and its evaluation at xi
Interpolate(f, built, tets, xi) ==
    IF tets = {} THEN [status |-> "QhullError", rows |-> <<>>, f |-> f]
    ELSE [status |-> "ok",
          rows |-> [k \in 1..Len(xi) |-> InterpolateAt(built.points, built.values, tets, xi[k])],
          f |-> [f EXCEPT !.interp = built]]

\* VectorField.__call__(xi): [status, rows, f], f the field with its interpolator built
Evaluate(f, xi) ==
    IF f.interp.none /\ f.points.none
    THEN [status |-> "RuntimeError", rows |-> <<>>, f |-> f]
    ELSE Interpolate(f, Interpolator(f), DelaunayTets(Interpolator(f).points), xi)

----------------------------------------------------------------------------
(* VectorField: construction and add_data_points *)

\* np.array(values, dtype=complex) of an argument: rank 1 (rows holds the values)
\* or rank 2 (rows holds rows of cols values)
InArray(rank, cols, rows) == [rank |-> rank, cols |-> cols, rows |-> rows]

\* lines 81-85: a rank-1 array as long as the points is a column (d = 1), any other
\* rank-1 array is one row
ForceValues(n, v) ==
    IF v.rank = 1 /\ Len(v.rows) = n THEN Array(1, [k \in 1..n |-> <<v.rows[k]>>])
    ELSE IF v.rank = 1 THEN Array(Len(v.rows), <<v.rows>>)
    ELSE Array(v.cols, v.rows)

\* lines 107-108 with return_index dropped: each kept point takes the value last given
Deduplicated_LastWins(f) ==
    LET u == UniqueRows(f.points.rows)
        lastIndex(q) == CHOOSE k \in 1..Len(f.points.rows) :
                            f.points.rows[k] = q /\ \A j \in (k + 1)..Len(f.points.rows) : f.points.rows[j] # q
    IN  [f EXCEPT !.points = Array(3, u),
                  !.values = Array(f.values.cols, [k \in 1..Len(u) |-> f.values.rows[lastIndex(u[k])]])]

\* lines 107-108 left out: the appended rows are kept as they are
Deduplicated_Skipped(f) == f

\* lines 107-108: keep one row per position, the first one given
Deduplicated(f) ==
    LET idx == UniqueIndices(f.points.rows)
    IN  [f EXCEPT !.points = Array(3, UniqueRows(f.points.rows)),
                  !.values = Array(f.values.cols, [k \in 1..Len(idx) |-> f.values.rows[idx[k]]])]

\* add_data_points appending the points before the dimensionality check of line 101
add_data_points_AppendingFirst(f, pts, vals) ==
    LET new_values == ForceValues(Len(pts), vals)
    IN  IF Len(pts) # Len(new_values.rows) THEN Outcome("RuntimeError", f)
        ELSE IF f.points.none
        THEN Outcome("ok",
                     [Deduplicated([f EXCEPT !.points = Array(3, pts), !.values = new_values,
                                             !.ndims = new_values.cols])
                        EXCEPT !.interp = NoInterp])
        ELSE IF f.ndims # new_values.cols
        THEN Outcome("RuntimeError", [f EXCEPT !.points = Array(3, f.points.rows \o pts)])
        ELSE Outcome("ok",
                     [Deduplicated([f EXCEPT !.points = Array(3, f.points.rows \o pts),
                                             !.values = Array(f.values.cols,
                                                              f.values.rows \o new_values.rows)])
                        EXCEPT !.interp = NoInterp])

\* VectorField.add_data_points(points, values): pts is a sequence of positions
add_data_points(f, pts, vals) ==
    LET new_values == ForceValues(Len(pts), vals)
    IN  IF Len(pts) # Len(new_values.rows) THEN Outcome("RuntimeError", f)
        ELSE IF f.points.none
        THEN Outcome("ok",
                     [Deduplicated([f EXCEPT !.points = Array(3, pts), !.values = new_values,
                                             !.ndims = new_values.cols])
                        EXCEPT !.interp = NoInterp])
        ELSE IF f.ndims # new_values.cols THEN Outcome("RuntimeError", f)
        ELSE Outcome("ok",
                     [Deduplicated([f EXCEPT !.points = Array(3, f.points.rows \o pts),
                                             !.values = Array(f.values.cols,
                                                              f.values.rows \o new_values.rows)])
                        EXCEPT !.interp = NoInterp])

\* VectorField(init_points, init_values) with both arguments given: lines 38-47
VectorField(pts, vals) == add_data_points(EmptyField, pts, vals)

\* VectorField(points, values) of a rank-2 array value, as the operators call it
NewField(pts, vals) == VectorField(pts, InArray(2, vals.cols, vals.rows))

----------------------------------------------------------------------------
(* Arithmetic on value arrays, with numpy's broadcasting *)

ColsCompatible(d1, d2) == d1 = d2 \/ d1 = 1 \/ d2 = 1

MaxOf(a, b) == IF a >= b THEN a ELSE b

\* the elementwise operation of an operator: +, -, *, / and conj(x) * y
ValueOp(op, x, y) ==
    CASE op = "+" -> NAdd(x, y)
      [] op = "-" -> NSub(x, y)
      [] op = "*" -> NMul(x, y)
      [] op = "/" -> NDiv(x, y)
      [] op = "conj*" -> NMul(NConj(x), y)

\* one row against one row, a column of length 1 stretched to the other's length
RowOp(op, ra, rb) ==
    [c \in 1..MaxOf(Len(ra), Len(rb)) |->
        ValueOp(op, IF Len(ra) = 1 THEN ra[1] ELSE ra[c], IF Len(rb) = 1 THEN rb[1] ELSE rb[c])]

\* values (N, d) against a vector (k,)
ArrayVector(op, a, vec) ==
    Array(MaxOf(a.cols, Len(vec)), [k \in 1..Len(a.rows) |-> RowOp(op, a.rows[k], vec)])

\* (M, d1) against (M, d2), row by row
RowsRows(op, d1, ra, d2, rb) ==
    Array(MaxOf(d1, d2), [k \in 1..Len(ra) |-> RowOp(op, ra[k], rb[k])])

\* values against a Python scalar
ArrayScalar(op, a, x) ==
    Array(a.cols, [k \in 1..Len(a.rows) |-> [c \in 1..a.cols |-> ValueOp(op, a.rows[k][c], x)]])

RECURSIVE RowSum(_)
RowSum(r) == IF r = <<>> THEN CZero ELSE NAdd(Head(r), RowSum(Tail(r)))

\* the indices of the rows whose first value is not NaN, in order
RECURSIVE KeptIndices(_, _)
KeptIndices(rows, k) ==
    IF k > Len(rows) THEN <<>>
    ELSE (IF IsNaN(rows[k][1]) THEN <<>> ELSE <<k>>) \o KeptIndices(rows, k + 1)

\* operands: a Python scalar, a vector (a list of numbers) or another VectorField
Scalar(x) == [kind |-> "scalar", x |-> x, vec |-> <<>>, f |-> EmptyField]

Vector(vec) == [kind |-> "vector", x |-> CZero, vec |-> vec, f |-> EmptyField]

FieldOperand(f) == [kind |-> "field", x |-> CZero, vec |-> <<>>, f |-> f]

\* the arguments (points, values) of add_data_points
Batch(b) == [kind |-> "batch", x |-> CZero, vec |-> b.pts, f |-> EmptyField, vals |-> b.vals]

\* the argument xi of __call__: a list of positions
Positions(xi) == [kind |-> "positions", x |-> CZero, vec |-> xi, f |-> EmptyField]

\* the outcome of an operator: its status, the field it returns, and self and the
\* other operand as the call leaves them
OpOutcome(status, result, f, other) ==
    [status |-> status, result |-> result, self |-> f, other |-> other]

\* the outcome of the field-field branch: [status, points, values, self, other]
Combined(status, pts, vals, f, g) ==
    [status |-> status, points |-> pts, values |-> vals, self |-> f, other |-> g]

\* line 168 and its copies: keep the rows of new_points and new_values listed in kept
Kept(new_points, new_values, kept, f, g) ==
    Combined("ok", [k \in 1..Len(kept) |-> new_points[kept[k]]],
             Array(new_values.cols, [k \in 1..Len(kept) |-> new_values.rows[kept[k]]]), f, g)

\* line 167 and its copies: the rows ea and eb of the two fields combined with op
CombineRows(op, new_points, ea, eb, f, g) ==
    IF ea.status # "ok" THEN Combined(ea.status, <<>>, NoneArray, f, g)
    ELSE IF eb.status # "ok" THEN Combined(eb.status, <<>>, NoneArray, ea.f, g)
    ELSE Kept(new_points, RowsRows(op, f.values.cols, ea.rows, g.values.cols, eb.rows),
              KeptIndices(RowsRows(op, f.values.cols, ea.rows, g.values.cols, eb.rows).rows, 1),
              ea.f, eb.f)

\* lines 165-169 and their copies: evaluate both fields at the union of their points,
\* combine the rows with op and drop the rows whose first value is NaN
Combine(op, f, g) ==
    IF g.points.none THEN Combined("ValueError", <<>>, NoneArray, f, g)
    ELSE CombineRows(op, UniqueRows(f.points.rows \o g.points.rows),
                     Evaluate(f, UniqueRows(f.points.rows \o g.points.rows)),
                     Evaluate(g, UniqueRows(f.points.rows \o g.points.rows)), f, g)

----------------------------------------------------------------------------
(* VectorField: the operators.  Each yields OpOutcome(status, result, self,  *)
(* other); a NotImplemented answer ends in Python's TypeError.              *)

Fail(status, f, o) == OpOutcome(status, EmptyField, f, o.f)

\* return VectorField(...): r is the constructor's outcome
Returning(r, f, g) == OpOutcome(r.status, r.f, f, g)

Construct(pts, vals, f, g) == Returning(NewField(pts, vals), f, g)

\* line 170 and its copies: c is the outcome of Combine
Rebuilt(c) ==
    IF c.status # "ok" THEN OpOutcome(c.status, EmptyField, c.self, c.other)
    ELSE Construct(c.points, c.values, c.self, c.other)

\* the field-field branch shared by +, -, *, /: lines 165-170
CombineNew(op, f, o) == Rebuilt(Combine(op, f, o.f))

\* __add__ and __sub__ (op is + or -): lines 150-196
AddSub(op, f, o) ==
    IF f.values.none THEN Fail("RuntimeError", f, o)
    ELSE IF o.kind = "vector"
    THEN IF ColsCompatible(f.values.cols, Len(o.vec))
         THEN Construct(f.points.rows, ArrayVector(op, f.values, o.vec), f, o.f)
         ELSE Fail("ValueError", f, o)
    ELSE IF f.ndims = 1 /\ o.kind = "scalar"
    THEN Construct(f.points.rows, ArrayScalar(op, f.values, o.x), f, o.f)
    ELSE IF o.kind = "field"
    THEN IF f.ndims # o.f.ndims THEN Fail("RuntimeError", f, o)
         ELSE CombineNew(op, f, o)
    ELSE Fail("TypeError", f, o)

\* __add__ with the d = 1 restriction on scalars dropped
add_AnyDimScalar(f, o) ==
    IF ~f.values.none /\ o.kind = "scalar"
    THEN Construct(f.points.rows, ArrayScalar("+", f.values, o.x), f, o.f)
    ELSE AddSub("+", f, o)

\* __add__ computing a difference
add_Subtracting(f, o) == AddSub("-", f, o)

add(f, o) == AddSub("+", f, o)

\* __sub__ computing a sum
sub_Adding(f, o) == AddSub("+", f, o)

sub(f, o) == AddSub("-", f, o)

\* __mul__: lines 198-219
mul(f, o) ==
    IF f.values.none THEN Fail("RuntimeError", f, o)
    ELSE IF o.kind = "scalar"
    THEN Construct(f.points.rows, ArrayScalar("*", f.values, o.x), f, o.f)
    ELSE IF o.kind = "field" /\ (f.ndims = 1 \/ o.f.ndims = 1)
    THEN CombineNew("*", f, o)
    ELSE Fail("TypeError", f, o)

\* __truediv__: lines 243-264
truediv(f, o) ==
    IF f.values.none THEN Fail("RuntimeError", f, o)
    ELSE IF o.kind = "scalar"
    THEN Construct(f.points.rows, ArrayScalar("/", f.values, o.x), f, o.f)
    ELSE IF o.kind = "field"
    THEN IF o.f.ndims = 1 THEN CombineNew("/", f, o) ELSE Fail("RuntimeError", f, o)
    ELSE Fail("TypeError", f, o)

\* lines 235-236: einsum('ij,ij->i') gives a rank-1 array, which [:, 0] cannot index
Indexed(c) ==
    IF c.status # "ok" THEN OpOutcome(c.status, EmptyField, c.self, c.other)
    ELSE OpOutcome("IndexError", EmptyField, c.self, c.other)

\* __matmul__: lines 221-241.  np.dot gives a rank-1 array of one value per point
matmul(f, o) ==
    IF f.values.none THEN Fail("RuntimeError", f, o)
    ELSE IF o.kind = "vector"
    THEN IF f.values.cols # Len(o.vec) THEN Fail("ValueError", f, o)
         ELSE Returning(VectorField(f.points.rows,
                                    InArray(1, 0, [k \in 1..Len(f.values.rows) |->
                                        RowSum(RowOp("conj*", f.values.rows[k], o.vec))])),
                        f, o.f)
    ELSE IF o.kind = "field"
    THEN IF f.ndims # o.f.ndims THEN Fail("RuntimeError", f, o)
         ELSE Indexed(Combine("conj*", f, o.f))
    ELSE Fail("TypeError", f, o)

\* a vector (k,) against values (N, d)
VectorArray(op, vec, a) ==
    Array(MaxOf(a.cols, Len(vec)), [k \in 1..Len(a.rows) |-> RowOp(op, vec, a.rows[k])])

\* a Python scalar against values
ScalarArray(op, x, a) ==
    Array(a.cols, [k \in 1..Len(a.rows) |-> [c \in 1..a.cols |-> ValueOp(op, x, a.rows[k][c])]])

\* __radd__ and __rsub__ (op is + or -): lines 266-288
RAddSub(op, f, o) ==
    IF f.values.none THEN Fail("RuntimeError", f, o)
    ELSE IF o.kind = "vector"
    THEN IF ColsCompatible(f.values.cols, Len(o.vec))
         THEN Construct(f.points.rows, VectorArray(op, o.vec, f.values), f, o.f)
         ELSE Fail("ValueError", f, o)
    ELSE IF f.ndims = 1 /\ o.kind = "scalar"
    THEN Construct(f.points.rows, ScalarArray(op, o.x, f.values), f, o.f)
    ELSE Fail("TypeError", f, o)

radd(f, o) == RAddSub("+", f, o)

rsub(f, o) == RAddSub("-", f, o)

\* __rmul__: lines 290-298
rmul(f, o) ==
    IF f.values.none THEN Fail("RuntimeError", f, o)
    ELSE IF o.kind = "scalar"
    THEN Construct(f.points.rows, ScalarArray("*", o.x, f.values), f, o.f)
    ELSE Fail("TypeError", f, o)

\* __rmatmul__: lines 300-309.  np.dot(values, conj(other)): one value per point
rmatmul(f, o) ==
    IF f.values.none THEN Fail("RuntimeError", f, o)
    ELSE IF o.kind = "vector"
    THEN IF f.values.cols # Len(o.vec) THEN Fail("ValueError", f, o)
         ELSE Returning(VectorField(f.points.rows,
                                    InArray(1, 0, [k \in 1..Len(f.values.rows) |->
                                        RowSum(RowOp("conj*", o.vec, f.values.rows[k]))])),
                        f, o.f)
    ELSE Fail("TypeError", f, o)

\* __rtruediv__: lines 311-322
rtruediv(f, o) ==
    IF f.values.none THEN Fail("RuntimeError", f, o)
    ELSE IF o.kind = "scalar"
    THEN IF f.ndims = 1 THEN Construct(f.points.rows, ScalarArray("/", o.x, f.values), f, o.f)
         ELSE Fail("RuntimeError", f, o)
    ELSE Fail("TypeError", f, o)

\* the unary operators of an empty field return VectorField()
Unary(f, vals) ==
    IF f.points.none THEN OpOutcome("ok", EmptyField, f, EmptyField)
    ELSE Construct(f.points.rows, vals, f, EmptyField)

Mapped(a, G(_)) ==
    Array(a.cols, [k \in 1..Len(a.rows) |-> [c \in 1..a.cols |-> G(a.rows[k][c])]])

NNeg(x) == IF IsNaN(x) THEN NaN ELSE CNeg(x)

\* conj: lines 142-145
conj(f) == Unary(f, Mapped(f.values, NConj))

\* a negation that changes the values of self and returns self
neg_InPlace(f) ==
    IF f.points.none THEN OpOutcome("ok", EmptyField, f, EmptyField)
    ELSE OpOutcome("ok", [f EXCEPT !.values = Mapped(f.values, NNeg)],
                   [f EXCEPT !.values = Mapped(f.values, NNeg)], EmptyField)

\* __neg__: lines 423-426
neg(f) == Unary(f, Mapped(f.values, NNeg))

\* __pos__: lines 428-431
pos(f) == Unary(f, f.values)

\* the sum of |x|^2 over a row of values with a common denominator of 1
RECURSIVE RowNormSq(_)
RowNormSq(r) ==
    IF r = <<>> THEN 0 ELSE Head(r).re * Head(r).re + Head(r).im * Head(r).im + RowNormSq(Tail(r))

IsSquare(n) == \E q \in 0..n : q * q = n

\* np.linalg.norm of a row whose norm is a whole number
RowNorm(r) == CInt(CHOOSE q \in 0..RowNormSq(r) : q * q = RowNormSq(r))

\* the values are whole numbers (real and imaginary part) with a whole norm per row
WholeNorms(f) ==
    \A k \in 1..Len(f.values.rows) :
        /\ \A c \in 1..f.values.cols : f.values.rows[k][c].den = 1
        /\ IsSquare(RowNormSq(f.values.rows[k]))

\* __abs__: lines 433-436.  The norms are a rank-1 array of one value per point
abs(f) ==
    IF f.points.none THEN OpOutcome("ok", EmptyField, f, EmptyField)
    ELSE Returning(VectorField(f.points.rows,
                               InArray(1, 0, [k \in 1..Len(f.values.rows) |->
                                   RowNorm(f.values.rows[k])])),
                   f, EmptyField)

\* the in-place operators return self: the result is self as the call leaves it
InPlace(status, f, g) == OpOutcome(status, f, f, g)

\* lines 346-347 without line 348: the interpolator built for self(new_points) is kept
Assigned_KeepingInterp(c) ==
    IF c.status # "ok" THEN InPlace(c.status, c.self, c.other)
    ELSE InPlace("ok", [c.self EXCEPT !.points = Array(3, c.points), !.values = c.values],
                 c.other)

\* lines 346-348 and their copies: c is the outcome of Combine
Assigned(c) ==
    IF c.status # "ok" THEN InPlace(c.status, c.self, c.other)
    ELSE InPlace("ok", [c.self EXCEPT !.points = Array(3, c.points), !.values = c.values,
                                       !.interp = NoInterp], c.other)

\* the field-field branch of the in-place operators: lines 343-348
CombineInPlace(op, f, o) == Assigned(Combine(op, f, o.f))

\* __iadd__ and __isub__ (op is + or -): lines 329-375
IAddSub(op, f, o) ==
    IF f.values.none THEN InPlace("RuntimeError", f, o.f)
    ELSE IF o.kind = "vector"
    THEN IF Len(o.vec) = f.values.cols \/ Len(o.vec) = 1
         THEN InPlace("ok", [f EXCEPT !.values = ArrayVector(op, f.values, o.vec),
                                      !.interp = NoInterp], o.f)
         ELSE InPlace("ValueError", f, o.f)
    ELSE IF f.ndims = 1 /\ o.kind = "scalar"
    THEN InPlace("ok", [f EXCEPT !.values = ArrayScalar(op, f.values, o.x),
                                 !.interp = NoInterp], o.f)
    ELSE IF o.kind = "field"
    THEN IF f.ndims # o.f.ndims THEN InPlace("RuntimeError", f, o.f)
         ELSE CombineInPlace(op, f, o)
    ELSE InPlace("TypeError", f, o.f)

iadd(f, o) == IAddSub("+", f, o)

isub(f, o) == IAddSub("-", f, o)

\* __imul__ without line 392
imul_KeepingDims(f, o) ==
    IF f.values.none THEN InPlace("RuntimeError", f, o.f)
    ELSE IF o.kind = "scalar"
    THEN InPlace("ok", [f EXCEPT !.values = ArrayScalar("*", f.values, o.x),
                                 !.interp = NoInterp], o.f)
    ELSE IF o.kind = "field" /\ (f.ndims = 1 \/ o.f.ndims = 1)
    THEN CombineInPlace("*", f, o)
    ELSE InPlace("TypeError", f, o.f)

\* line 392: self.ndims = self.values.shape[1]
UpdateDims(r) ==
    IF r.status # "ok" THEN r
    ELSE InPlace("ok", [r.self EXCEPT !.ndims = r.self.values.cols], r.other)

\* __imul__: lines 377-397
imul(f, o) ==
    IF f.values.none THEN InPlace("RuntimeError", f, o.f)
    ELSE IF o.kind = "scalar"
    THEN InPlace("ok", [f EXCEPT !.values = ArrayScalar("*", f.values, o.x),
                                 !.interp = NoInterp], o.f)
    ELSE IF o.kind = "field" /\ (f.ndims = 1 \/ o.f.ndims = 1)
    THEN UpdateDims(CombineInPlace("*", f, o))
    ELSE InPlace("TypeError", f, o.f)

\* __itruediv__: lines 399-418
itruediv(f, o) ==
    IF f.values.none THEN InPlace("RuntimeError", f, o.f)
    ELSE IF o.kind = "scalar"
    THEN InPlace("ok", [f EXCEPT !.values = ArrayScalar("/", f.values, o.x),
                                 !.interp = NoInterp], o.f)
    ELSE IF o.kind = "field"
    THEN IF o.f.ndims = 1 THEN CombineInPlace("/", f, o) ELSE InPlace("RuntimeError", f, o.f)
    ELSE InPlace("TypeError", f, o.f)

----------------------------------------------------------------------------
(* VectorField: files (np.savez_compressed / np.load) *)

\* an array as np.savez stores it: None becomes a pickled object array
Stored(a) == [dtype |-> IF a.none THEN "object" ELSE "number", array |-> a]

NoFile == [exists |-> FALSE, pts |-> Stored(NoneArray), val |-> Stored(NoneArray),
           source |-> EmptyField]

\* save_to_file: line 137.  source remembers the field that was saved
Saved(f) == [exists |-> TRUE, pts |-> Stored(f.points), val |-> Stored(f.values), source |-> f]

\* read_from_file: lines 117-121.  np.load refuses object arrays (allow_pickle=False)
read_from_file(fl) ==
    IF ~fl.exists THEN Outcome("FileNotFoundError", EmptyField)
    ELSE IF fl.pts.dtype = "object" \/ fl.val.dtype = "object"
    THEN Outcome("ValueError", EmptyField)
    ELSE VectorField(fl.pts.array.rows, InArray(2, fl.val.array.cols, fl.val.array.rows))

----------------------------------------------------------------------------
(* VectorField: the inputs the model draws from *)

Dims == 1..MaxDim

\* point lists handed to the constructor: a tetrahedron, one given out of order with
\* an interior point, a smaller tetrahedron, one with a repeated point, and two
\* points (which span no tetrahedron)
InitPointLists ==
    { <<PosA, PosB, PosC, PosD>>,
      <<PosE, PosD, PosC, PosB, PosA>>,
      <<PosA, PosB, PosC, PosE>>,
      <<PosA, PosB, PosC, PosD, PosA>>,
      <<PosA, PosB>> }

Patterns == {0, 1}

\* n rows of d values; pattern 0 is constant over the rows
MakeRows(p, n, d) == [k \in 1..n |-> [c \in 1..d |-> Cx(p * k + c - 1, p * (c - 1), 1)]]

InitFields ==
    {EmptyField} \cup
    {VectorField(pl, InArray(2, d, MakeRows(p, Len(pl), d))).f :
        pl \in InitPointLists, p \in Patterns, d \in Dims}

\* arguments of add_data_points: new points, a point already stored, a point given
\* twice; values of each dimension, a rank-1 list of values, and one row too many
BatchPointLists == { <<PosE>>, <<PosF, PosA>>, <<PosF, PosF>> }

Batches ==
    {[pts |-> pl, vals |-> InArray(2, d, MakeRows(2, Len(pl), d))] : pl \in BatchPointLists, d \in Dims}
    \cup {[pts |-> pl, vals |-> InArray(1, 0, [k \in 1..Len(pl) |-> CInt(k + 4)])] : pl \in BatchPointLists}
    \cup {[pts |-> pl, vals |-> InArray(2, 1, MakeRows(2, Len(pl) + 1, 1))] : pl \in BatchPointLists}

QueryLists == { <<PosE>>, <<PosF, PosA>> }

ZeroVector(d) == [c \in 1..d |-> CZero]

Scalars == {Scalar(CInt(0)), Scalar(CInt(1)), Scalar(Cx(0, 2, 1))}

Vectors == {Vector(ZeroVector(d)) : d \in Dims} \cup {Vector(<<CInt(1), CJ>>)}

Operands == Scalars \cup Vectors \cup {FieldOperand(g) : g \in InitFields}

\* the operands of the in-place operators
InPlaceOperands ==
    {Scalar(Cx(0, 2, 1)), Vector(<<CInt(1)>>), Vector(<<CInt(1), CJ>>), FieldOperand(EmptyField)}
    \cup {FieldOperand(VectorField(pl, InArray(2, d, MakeRows(p, Len(pl), d))).f) :
            pl \in {<<PosA, PosB, PosC, PosD>>, <<PosA, PosB, PosC, PosE>>},
            p \in Patterns, d \in Dims}

----------------------------------------------------------------------------
(* VectorField: the actions *)

Self == [points |-> points, values |-> values, interp |-> interp, ndims |-> ndims]

SetSelf(f) ==
    /\ points' = f.points
    /\ values' = f.values
    /\ interp' = f.interp
    /\ ndims' = f.ndims

\* the last operation: its name, status, returned field or rows, self before it, the
\* other operand before and after it, and the number of mutations so far
Last(op, status, result, rows, other, otherAfter, count) ==
    [op |-> op, status |-> status, result |-> result, rows |-> rows, before |-> Self,
     other |-> other, otherAfter |-> otherAfter, count |-> count]

NoOperand == Scalar(CZero)

NoLast ==
    [op |-> "none", status |-> "ok", result |-> EmptyField, rows |-> <<>>, before |-> EmptyField,
     other |-> NoOperand, otherAfter |-> EmptyField, count |-> 0]

CircuitUnused ==
    /\ ohmic_elements = <<>>
    /\ nonohmic_elements = <<>>
    /\ inserted = <<>>
    /\ calc = Idle

FieldUnused ==
    /\ points = NoneArray
    /\ values = NoneArray
    /\ interp = NoInterp
    /\ ndims = NoDims
    /\ last = NoLast
    /\ file = NoFile

\* VectorField() or VectorField(init_points, init_values): lines 34-53
FieldInit ==
    /\ \E f \in InitFields :
          /\ points = f.points
          /\ values = f.values
          /\ interp = f.interp
          /\ ndims = f.ndims
    /\ last = NoLast
    /\ file = NoFile

AddDataPoints(b) ==
    /\ last.count < MaxOps
    /\ \E r \in {add_data_points(Self, b.pts, b.vals)} :
           /\ SetSelf(r.f)
           /\ last' = Last("add_data_points", r.status, r.f, <<>>, Batch(b), EmptyField,
                           last.count + 1)
    /\ UNCHANGED <<file, circuitVars, materialVars, deviceVars>>

Call(xi) ==
    /\ \E r \in {Evaluate(Self, xi)} :
           /\ SetSelf(r.f)
           /\ last' = Last("call", r.status, r.f, r.rows, Positions(xi), EmptyField, last.count)
    /\ UNCHANGED <<file, circuitVars, materialVars, deviceVars>>

\* self op= other: r is the outcome of the in-place operator
Mutated(name, r, o) ==
    /\ SetSelf(r.self)
    /\ last' = Last(name, r.status, r.result, <<>>, o, r.other, last.count + 1)
    /\ UNCHANGED <<file, circuitVars, materialVars, deviceVars>>

IAdd(o) == last.count < MaxOps /\ \E r \in {iadd(Self, o)} : Mutated("iadd", r, o)

ISub(o) == last.count < MaxOps /\ \E r \in {isub(Self, o)} : Mutated("isub", r, o)

IMul(o) == last.count < MaxOps /\ \E r \in {imul(Self, o)} : Mutated("imul", r, o)

ITrueDiv(o) == last.count < MaxOps /\ \E r \in {itruediv(Self, o)} : Mutated("itruediv", r, o)

SaveToFile ==
    /\ file' = Saved(Self)
    /\ last' = Last("save_to_file", "ok", EmptyField, <<>>, NoOperand, EmptyField, last.count)
    /\ UNCHANGED <<points, values, interp, ndims, circuitVars, materialVars, deviceVars>>

ReadFromFile ==
    /\ \E r \in {read_from_file(file)} :
           last' = Last("read_from_file", r.status, r.f, <<>>, NoOperand, EmptyField, last.count)
    /\ UNCHANGED <<points, values, interp, ndims, file, circuitVars, materialVars, deviceVars>>

FieldNext ==
    \/ \E b \in Batches : AddDataPoints(b)
    \/ \E xi \in QueryLists : Call(xi)
    \/ \E o \in InPlaceOperands : IAdd(o)
    \/ \E o \in InPlaceOperands : ISub(o)
    \/ \E o \in InPlaceOperands : IMul(o)
    \/ \E o \in InPlaceOperands : ITrueDiv(o)
    \/ SaveToFile
    \/ ReadFromFile

\* result = self op other: r is the outcome of an operator that returns a new field
Applied(name, r, o) ==
    /\ SetSelf(r.self)
    /\ last' = Last(name, r.status, r.result, <<>>, o, r.other, last.count)
    /\ UNCHANGED <<file, circuitVars, materialVars, deviceVars>>

Add(o) == last.op = "none" /\ \E r \in {add(Self, o)} : Applied("add", r, o)

Sub(o) == last.op = "none" /\ \E r \in {sub(Self, o)} : Applied("sub", r, o)

Mul(o) == last.op = "none" /\ \E r \in {mul(Self, o)} : Applied("mul", r, o)

TrueDiv(o) == last.op = "none" /\ \E r \in {truediv(Self, o)} : Applied("truediv", r, o)

MatMul(o) == last.op = "none" /\ \E r \in {matmul(Self, o)} : Applied("matmul", r, o)

\* r2 is the outcome of the subtraction, f is self as the addition left it
ThenSubOutcome(r2, f) == OpOutcome(r2.status, r2.result, f, r2.other)

\* the second step of (self + other) - other: r1 is the outcome of self + other
ThenSub(r1, o) ==
    IF r1.status # "ok" THEN r1
    ELSE ThenSubOutcome(sub(r1.result, IF o.kind = "field" THEN FieldOperand(r1.other) ELSE o),
                        r1.self)

\* (self + other) - other
AddThenSub(o) ==
    last.op = "none" /\ \E r \in {ThenSub(add(Self, o), o)} : Applied("add_then_sub", r, o)

\* other op self, where other is not a VectorField and Python turns to the reflected
\* method of self
ReflectedAdd(o) == last.op = "none" /\ \E r \in {radd(Self, o)} : Applied("radd", r, o)

ReflectedSub(o) == last.op = "none" /\ \E r \in {rsub(Self, o)} : Applied("rsub", r, o)

ReflectedMul(o) == last.op = "none" /\ \E r \in {rmul(Self, o)} : Applied("rmul", r, o)

ReflectedMatMul(o) == last.op = "none" /\ \E r \in {rmatmul(Self, o)} : Applied("rmatmul", r, o)

ReflectedTrueDiv(o) == last.op = "none" /\ \E r \in {rtruediv(Self, o)} : Applied("rtruediv", r, o)

Conj == last.op = "none" /\ \E r \in {conj(Self)} : Applied("conj", r, NoOperand)

Neg == last.op = "none" /\ \E r \in {neg(Self)} : Applied("neg", r, NoOperand)

Pos == last.op = "none" /\ \E r \in {pos(Self)} : Applied("pos", r, NoOperand)

\* abs of the fields whose norms are whole numbers
Abs_ ==
    /\ last.op = "none"
    /\ WholeNorms(Self)
    /\ \E r \in {abs(Self)} : Applied("abs", r, NoOperand)

AlgebraNext ==
    \/ \E o \in Operands : Add(o)
    \/ \E o \in Operands : Sub(o)
    \/ \E o \in Operands : Mul(o)
    \/ \E o \in Operands : TrueDiv(o)
    \/ \E o \in Operands : MatMul(o)
    \/ \E o \in Operands : AddThenSub(o)
    \/ \E o \in Scalars \cup Vectors : ReflectedAdd(o)
    \/ \E o \in Scalars \cup Vectors : ReflectedSub(o)
    \/ \E o \in Scalars \cup Vectors : ReflectedMul(o)
    \/ \E o \in Scalars \cup Vectors : ReflectedMatMul(o)
    \/ \E o \in Scalars \cup Vectors : ReflectedTrueDiv(o)
    \/ Conj
    \/ Neg
    \/ Pos
    \/ Abs_

----------------------------------------------------------------------------
(* VectorField: properties *)

Initialized(f) == ~f.values.none

\* the stored data of f as a set of (point, value row) pairs
Pairs(f) ==
    IF f.points.none THEN {}
    ELSE {<<f.points.rows[k], f.values.rows[k]>> : k \in 1..Len(f.points.rows)}

\* the points of f span at least one tetrahedron, so that f can be evaluated
Triangulable(f) == Initialized(f) /\ DelaunayTets(f.points.rows) # {}

\* f(p) for a field that can be evaluated: a row of values, NaN outside the hull
At(f, p) == Evaluate(f, <<p>>).rows[1]

DefinedAt(f, p) == \A c \in 1..f.values.cols : ~IsNaN(At(f, p)[c])

\* C4: in every state the stored points are pairwise distinct and values has exactly
\* one row per stored point
C4_DistinctPointsOneRowEach ==
    /\ points.none <=> values.none
    /\ ~points.none =>
          /\ \A i, j \in 1..Len(points.rows) : i # j => points.rows[i] # points.rows[j]
          /\ Len(values.rows) = Len(points.rows)

\* add_data_points stored a batch of two points and kept only one of them
C4_Witness ==
    /\ last.op = "add_data_points"
    /\ last.status = "ok"
    /\ Initialized(last.before)
    /\ PosF \in Range(points.rows)
    /\ Len(points.rows) = Len(last.before.points.rows) + 1

\* C5 as stated: once ndims is set, no step changes it
C5_DimsNeverChange == [][ndims # NoDims => ndims' = ndims]_vars

\* C5, amended: once ndims is set, only *= by a VectorField changes it, to the larger
\* of the two dimensions; every other step leaves it as it was
C5_DimsChangeOnlyByFieldProduct ==
    [][ndims # NoDims =>
          IF last'.op = "imul" /\ last'.status = "ok" /\ last'.other.kind = "field"
          THEN ndims' = MaxOf(ndims, last'.other.f.ndims)
          ELSE ndims' = ndims]_vars

\* a d = 1 field was multiplied in place by a field of larger d
C5_Witness ==
    /\ last.op = "imul"
    /\ last.status = "ok"
    /\ last.other.kind = "field"
    /\ last.before.ndims = 1
    /\ ndims > 1
    /\ values.cols = ndims

C6_Case ==
    /\ last.op \in {"add", "sub"}
    /\ last.other.kind = "field"
    /\ Initialized(last.before)
    /\ Initialized(last.other.f)
    /\ last.before.ndims = last.other.f.ndims

C6_Expected(x, y) == IF last.op = "add" THEN NAdd(x, y) ELSE NSub(x, y)

C7_Case ==
    /\ last.op = "matmul"
    /\ last.other.kind = "field"
    /\ Triangulable(last.before)
    /\ Triangulable(last.other.f)

\* C7 as stated: for initialized fields a and b of equal dimension, a @ b succeeds
\* and returns a d = 1 field
C7_MatmulReturnsInnerProduct ==
    (C7_Case /\ last.before.ndims = last.other.f.ndims) =>
        /\ last.status = "ok"
        /\ last.result.ndims = 1

\* the part of C7 that holds: fields of different dimension are rejected
C7_DifferentDimsRejected ==
    (C7_Case /\ last.before.ndims # last.other.f.ndims) => last.status = "RuntimeError"

C8_Same ==
    /\ last.status = "ok"
    /\ last.result.points = last.before.points
    /\ last.result.values = last.before.values
    /\ last.result.ndims = last.before.ndims

\* C8 as stated: f + 0 and f * 1 return the points and values of f, for any d
C8_AddZeroMulOne ==
    (/\ Initialized(last.before)
     /\ \/ last.op = "add" /\ last.other = Scalar(CInt(0))
        \/ last.op = "mul" /\ last.other = Scalar(CInt(1))) => C8_Same

\* C8, amended: f * 1 returns the points and values of f for any d; f + 0 does so
\* for d = 1 and raises TypeError for d > 1, where the zero to add is the zero vector
C8_Identities ==
    Initialized(last.before) =>
        /\ (last.op = "mul" /\ last.other = Scalar(CInt(1))) => C8_Same
        /\ (last.op = "add" /\ last.other = Scalar(CInt(0))) =>
              IF last.before.ndims = 1 THEN C8_Same ELSE last.status = "TypeError"
        /\ (last.op = "add" /\ last.other = Vector(ZeroVector(last.before.ndims))) => C8_Same

\* f + 0 was asked of a field of dimension d > 1
C8_Witness ==
    /\ last.op = "add"
    /\ last.other = Scalar(CInt(0))
    /\ last.before.ndims > 1
    /\ Len(last.before.points.rows) >= 4
    /\ last.status = "TypeError"

C9_Case ==
    /\ last.op = "add_then_sub"
    /\ last.other.kind = "field"
    /\ Initialized(last.before)
    /\ Initialized(last.other.f)
    /\ last.before.ndims = last.other.f.ndims
    /\ Range(last.before.points.rows) = Range(last.other.f.points.rows)

C10_SameData(f, g) ==
    /\ Pairs(g) = Pairs(f)
    /\ g.ndims = f.ndims

\* C10 as stated: for every field f, read_from_file of the file save_to_file wrote
\* returns a field with the (point, value) pairs and the ndims of f
C10_RoundTrip ==
    (last.op = "read_from_file" /\ file.exists) =>
        /\ last.status = "ok"
        /\ C10_SameData(file.source, last.result)

\* the part of C10 that holds: the round trip of a field that has data
C10_InitializedRoundTrip ==
    (last.op = "read_from_file" /\ file.exists /\ Initialized(file.source)) =>
        /\ last.status = "ok"
        /\ C10_SameData(file.source, last.result)

\* p lies in no tetrahedron spanned by four of the points: outside their convex hull
OutsideHull(pts, p) ==
    \A t \in Tets(Len(pts)) : OrientTet(pts, t) # 0 => ~Contains(pts, t, p)

HasData(f) == Initialized(f) /\ Len(f.points.rows) > 0

C11_Unchanged == Self = last.before

C11_NaNOutsideHull ==
    /\ last.status = "ok"
    /\ Len(last.rows) = Len(last.other.vec)
    /\ \A k \in 1..Len(last.rows) :
          \A c \in 1..values.cols :
              IsNaN(last.rows[k][c]) <=> OutsideHull(points.rows, last.other.vec[k])
    /\ points = last.before.points
    /\ values = last.before.values
    /\ ndims = last.before.ndims

C12_ValueCount == Len(ForceValues(Len(last.other.vec), last.other.vals).rows)

C12_ValueDims == ForceValues(Len(last.other.vec), last.other.vals).cols

C12_CountDiffers == Len(last.other.vec) # C12_ValueCount

C12_DimsDiffer == Initialized(last.before) /\ last.before.ndims # C12_ValueDims

\* C12: add_data_points raises exactly when the number of points differs from the
\* number of values or the values' dimension differs from the field's d, and then
\* points, values, ndims and the cached interpolator are as before the call
C12_RejectedWithoutAppend ==
    last.op = "add_data_points" =>
        /\ last.status = "RuntimeError" <=> (C12_CountDiffers \/ C12_DimsDiffer)
        /\ last.status = "RuntimeError" =>
              /\ points = last.before.points
              /\ values = last.before.values
              /\ ndims = last.before.ndims
              /\ interp = last.before.interp

\* values of another dimension were refused by a field whose interpolator was built
C12_Witness ==
    /\ last.op = "add_data_points"
    /\ last.status = "RuntimeError"
    /\ C12_DimsDiffer
    /\ ~C12_CountDiffers
    /\ ~last.before.interp.none
    /\ interp = last.before.interp

\* more values than points were refused
C12_CountWitness ==
    /\ last.op = "add_data_points"
    /\ last.status = "RuntimeError"
    /\ C12_CountDiffers
    /\ Initialized(last.before)

\* the circuit is composed of Resistor, Inductor and Capacitor elements only
C20_SimpleElements ==
    /\ nonohmic_elements = <<>>
    /\ \A k \in 1..Len(ohmic_elements) :
          ohmic_elements[k].kind \in {"Resistor", "Inductor", "Capacitor"}

C20_HasResistance ==
    \E k \in 1..Len(ohmic_elements) :
        ohmic_elements[k].kind = "Resistor" /\ ohmic_elements[k].param > 0

C20_HasCapacitor ==
    \E k \in 1..Len(ohmic_elements) : ohmic_elements[k].kind = "Capacitor"

C20_AtZeroFrequency == C20_SimpleElements /\ calc.pc = "done" /\ calc.ang_freq = 0

\* C20: in a circuit of Resistor, Inductor and Capacitor elements,
\* calculate_current(0, V) returns a current and does not fail (stated here for the
\* circuits with some resistance, whose DC impedance is not zero)
C20_DCReturnsCurrent ==
    (C20_AtZeroFrequency /\ C20_HasResistance) => calc.ret.ok

\* what holds of the source at zero frequency: calculate_current(0, V) returns
\* exactly when the circuit has no Capacitor and its resistances do not sum to zero
C20_DCReturnsWithoutCapacitor ==
    C20_AtZeroFrequency => (calc.ret.ok <=> (C20_HasResistance /\ ~C20_HasCapacitor))

----------------------------------------------------------------------------
(* Material (material.py).  A description is four sections of options; an   *)
(* option is a string or is missing (NoOption).  A section missing from the *)
(* description behaves as a section with every option missing (lines 90,    *)
(* 97, 111, 124).  The five Jiles-Atherton options of a section (alpha, a,  *)
(* psat or msat, k, c) are given together or not at all: option "ja".       *)

NoOption == "<no option>"

NoAttribute == "<no attribute>"

\* str.casefold on the type strings the model draws from
casefold(t) ==
    CASE t \in {"dielectric", "Dielectric", "DIELECTRIC"} -> "dielectric"
      [] t \in {"ferroelectric", "FerroElectric"} -> "ferroelectric"
      [] t \in {"diamagnetic", "Diamagnetic"} -> "diamagnetic"
      [] t \in {"paramagnetic", "Paramagnetic"} -> "paramagnetic"
      [] t \in {"ferromagnetic", "FERROMAGNETIC"} -> "ferromagnetic"
      [] t \in {"ferrimagnetic", "Ferrimagnetic"} -> "ferrimagnetic"
      [] t \in {"antiferromagnetic", "AntiFerromagnetic"} -> "antiferromagnetic"
      [] t = "Metal" -> "metal"
      [] OTHER -> t

\* ConfigParser.getboolean: the strings ConfigParser.BOOLEAN_STATES knows, in any case
BooleanTrue == {"True", "true", "yes", "on", "1"}

BooleanFalse == {"False", "false", "no", "off", "0"}

getboolean(v) ==
    IF v = NoOption THEN [ok |-> FALSE, val |-> FALSE, exc |-> "NoOptionError"]
    ELSE IF v \in BooleanTrue THEN [ok |-> TRUE, val |-> TRUE, exc |-> "none"]
    ELSE IF v \in BooleanFalse THEN [ok |-> TRUE, val |-> FALSE, exc |-> "none"]
    ELSE [ok |-> FALSE, val |-> FALSE, exc |-> "ValueError"]

\* float(v) of the strings the model draws from
FloatStrings == {"0.0", "1", "2", "-1"}

FloatOf(v) == CASE v = "0.0" -> 0 [] v = "1" -> 1 [] v = "2" -> 2 [] v = "-1" -> -1

\* ConfigParser.getfloat
getfloat(v) ==
    IF v = NoOption THEN Raised("NoOptionError")
    ELSE IF v \in FloatStrings THEN Returned(CInt(FloatOf(v)))
    ELSE Raised("ValueError")

\* json.loads of a curve option followed by np.array(..., dtype=float)
CurveStrings == {"[[0, 1], [0, 2]]"}

NoMaterial ==
    [state |-> "none", exc |-> "none",
     misc |-> [name |-> NoOption, desc |-> NoOption],
     conductivity |-> [ohmic |-> NoOption, conductivity |-> NoOption, curve |-> NoOption],
     electrical |-> [type |-> NoOption, susceptibility |-> NoOption, ja |-> NoOption],
     magnetic |-> [type |-> NoOption, susceptibility |-> NoOption, ja |-> NoOption],
     conductivity_curve |-> NoAttribute,
     init |-> <<>>]

\* lines 78-86: the sections of the description are copied into self.properties
Copied(init) ==
    [NoMaterial EXCEPT !.misc = init.misc, !.conductivity = init.conductivity,
                       !.electrical = init.electrical, !.magnetic = init.magnetic,
                       !.init = init]

Aborted(m, exc) == [m EXCEPT !.state = "raised", !.exc = exc]

\* construction refusing a description without a name or a description text
MiscDefaults_Required(m) ==
    IF m.misc.name = NoOption \/ m.misc.desc = NoOption THEN Aborted(m, "KeyError") ELSE m

\* lines 90-95
MiscDefaults(m) ==
    [m EXCEPT !.misc.name = IF @ = NoOption THEN "Vacuum" ELSE @,
              !.misc.desc = IF @ = NoOption THEN "Classical vaccum" ELSE @]

\* lines 97-109 without the default conductivity of an Ohmic material (lines 103-104)
ConductivityDefaults_NoScalarDefault(m) ==
    IF m.conductivity.ohmic = NoOption
    THEN [m EXCEPT !.conductivity =
                      [ohmic |-> "True", conductivity |-> "0.0", curve |-> NoOption]]
    ELSE IF ~getboolean(m.conductivity.ohmic).ok THEN Aborted(m, "ValueError")
    ELSE IF getboolean(m.conductivity.ohmic).val THEN m
    ELSE IF m.conductivity.curve = NoOption THEN [m EXCEPT !.conductivity_curve = "default"]
    ELSE IF m.conductivity.curve \in CurveStrings
    THEN [m EXCEPT !.conductivity_curve = m.conductivity.curve]
    ELSE Aborted(m, "JSONDecodeError")

\* lines 97-109
ConductivityDefaults(m) ==
    IF m.conductivity.ohmic = NoOption
    THEN [m EXCEPT !.conductivity =
                      [ohmic |-> "True", conductivity |-> "0.0", curve |-> NoOption]]
    ELSE IF ~getboolean(m.conductivity.ohmic).ok THEN Aborted(m, "ValueError")
    ELSE IF getboolean(m.conductivity.ohmic).val
    THEN [m EXCEPT !.conductivity.conductivity = IF @ = NoOption THEN "0.0" ELSE @]
    ELSE IF m.conductivity.curve = NoOption THEN [m EXCEPT !.conductivity_curve = "default"]
    ELSE IF m.conductivity.curve \in CurveStrings
    THEN [m EXCEPT !.conductivity_curve = m.conductivity.curve]
    ELSE Aborted(m, "JSONDecodeError")

\* the electrical types are compared as they are written, without casefold
ElectricalDefaults_CaseSensitive(m) ==
    IF m.state = "raised" THEN m
    ELSE IF m.electrical.type = NoOption
    THEN [m EXCEPT !.electrical =
                      [type |-> "dielectric", susceptibility |-> "0.0", ja |-> NoOption]]
    ELSE IF m.electrical.type \in {"dielectric", "ferroelectric"} THEN m
    ELSE Aborted(m, "RuntimeError")

\* lines 111-122
ElectricalDefaults(m) ==
    IF m.state = "raised" THEN m
    ELSE IF m.electrical.type = NoOption
    THEN [m EXCEPT !.electrical =
                      [type |-> "dielectric", susceptibility |-> "0.0", ja |-> NoOption]]
    ELSE IF casefold(m.electrical.type) = "dielectric"
    THEN [m EXCEPT !.electrical.type = "dielectric"]
    ELSE IF casefold(m.electrical.type) = "ferroelectric"
    THEN [m EXCEPT !.electrical.type = "ferroelectric"]
    ELSE Aborted(m, "RuntimeError")

\* lines 124-135
MagneticDefaults(m) ==
    IF m.state = "raised" THEN m
    ELSE IF m.magnetic.type = NoOption
    THEN [m EXCEPT !.magnetic =
                      [type |-> "diamagnetic", susceptibility |-> "0.0", ja |-> NoOption]]
    ELSE IF casefold(m.magnetic.type) \in {"diamagnetic", "paramagnetic"}
    THEN [m EXCEPT !.magnetic.type = "diamagnetic"]
    ELSE IF casefold(m.magnetic.type) \in {"ferromagnetic", "ferrimagnetic", "antiferromagnetic"}
    THEN [m EXCEPT !.magnetic.type = "ferromagnetic"]
    ELSE Aborted(m, "RuntimeError")

Constructed(m) == IF m.state = "raised" THEN m ELSE [m EXCEPT !.state = "constructed"]

\* Material(init): the object after __init__, or the exception that ended it
Material(init) ==
    Constructed(MagneticDefaults(ElectricalDefaults(ConductivityDefaults(MiscDefaults(Copied(init))))))

\* Material.is_ohmic, is_dielectric, is_magnetically_linear
material_is_ohmic(m) == getboolean(m.conductivity.ohmic)

is_dielectric(m) == casefold(m.electrical.type) = "dielectric"

is_magnetically_linear(m) == casefold(m.magnetic.type) \in {"diamagnetic", "paramagnetic"}

\* Material.conductivity, electrical_susceptibility, magnetic_susceptibility
conductivity(m) == getfloat(m.conductivity.conductivity)

electrical_susceptibility(m) == getfloat(m.electrical.susceptibility)

magnetic_susceptibility(m) == getfloat(m.magnetic.susceptibility)

\* Material.electrical_JA_parameters, magnetic_JA_parameters: five getfloat calls
JA_parameters(section) ==
    IF section.ja = NoOption THEN Raised("NoOptionError") ELSE Returned(CInt(1))

----------------------------------------------------------------------------
(* Material.calculate_B_field_from_H_field (material.py, lines 374-445).    *)
(* The applied field is a list of pairs [H, w]; a B phasor is a multiple x  *)
(* of the constant VACUUM_PERMEABILITY_SI.  The frame records in "steps"    *)
(* the parts of the method that ran.                                        *)

\* the frame of calculate_B_field_from_H_field before any call
IdleB ==
    [pc |-> "idle", inputs |-> <<>>, N_time |-> 0, target_frequencies |-> <<>>, step |-> 0,
     steps |-> <<>>, ret |-> <<>>, exc |-> "none"]

RECURSIVE Pow(_, _)
Pow(b, e) == IF e = 0 THEN 1 ELSE b * Pow(b, e - 1)

\* line 391
RECURSIVE InputFrequencies(_)
InputFrequencies(inputs) ==
    IF inputs = <<>> THEN <<>>
    ELSE IF Head(inputs).w > 0 THEN <<Head(inputs).w>> \o InputFrequencies(Tail(inputs))
    ELSE InputFrequencies(Tail(inputs))

\* index[j] counted from 0: the combinations with no negative coefficient
IndexAt_NonNegative(i, j, step) == (i \div Pow(2 * step + 1, j - 1)) % (2 * step + 1)

\* lines 394-405: index[j] at pass i of the for loop, counted from -step with carry
IndexAt(i, j, step) == ((i \div Pow(2 * step + 1, j - 1)) % (2 * step + 1)) - step

\* lines 400-402
RECURSIVE PossibleFrequency(_, _, _, _)
PossibleFrequency(freqs, i, j, step) ==
    IF j > Len(freqs) THEN 0
    ELSE freqs[j] * IndexAt(i, j, step) + PossibleFrequency(freqs, i, j + 1, step)

InSeq(x, sq) == \E k \in 1..Len(sq) : sq[k] = x

\* lines 395-405: passes i, i+1, ... of the for loop, appending to target
RECURSIVE Enumerated(_, _, _, _)
Enumerated(freqs, i, step, target) ==
    IF i >= Pow(2 * step + 1, Len(freqs)) THEN target
    ELSE Enumerated(freqs, i + 1, step,
                    IF PossibleFrequency(freqs, i, 1, step) > 0
                       /\ ~InSeq(PossibleFrequency(freqs, i, 1, step), target)
                    THEN Append(target, PossibleFrequency(freqs, i, 1, step))
                    ELSE target)

\* line 407: list.sort of distinct numbers
Sorted(sq) ==
    [k \in 1..Len(sq) |->
        CHOOSE x \in Range(sq) : Cardinality({y \in Range(sq) : y < x}) = k - 1]

\* lines 408-409
Truncated(sq, n) == IF Len(sq) > n THEN SubSeq(sq, 1, n) ELSE sq

VACUUM_PERMEABILITY_SI == "VACUUM_PERMEABILITY_SI"

\* the linear branch adding chi * H in place of multiplying by 1 + chi
Permeated_Adding(chi, H) == [unit |-> VACUUM_PERMEABILITY_SI, x |-> CAdd(CMul(chi, H), CInt(1))]

\* permeability * H with permeability = VACUUM_PERMEABILITY_SI * (1.0 + chi): line 383, 385
Permeated(chi, H) == [unit |-> VACUUM_PERMEABILITY_SI, x |-> CMul(CAdd(CInt(1), chi), H)]

Finished(frame, ret, exc) == [frame EXCEPT !.pc = "done", !.ret = ret, !.exc = exc]

\* lines 376-391: the call up to the first pass of the while loop
BFieldStart(m, inputs, N_time) ==
    LET frame == [IdleB EXCEPT !.inputs = inputs, !.N_time = N_time]
    IN  IF N_time < Len(inputs) + 1 THEN Finished(frame, <<>>, "ValueError")
        ELSE IF is_magnetically_linear(m)
        THEN IF ~magnetic_susceptibility(m).ok
             THEN Finished(frame, <<>>, magnetic_susceptibility(m).exc)
             ELSE Finished([frame EXCEPT !.steps = <<"linear">>],
                           [k \in 1..Len(inputs) |->
                               [B |-> Permeated(magnetic_susceptibility(m).val, inputs[k].H),
                                w |-> inputs[k].w]],
                           "none")
        ELSE [frame EXCEPT !.pc = "harmonics", !.target_frequencies = <<0>>, !.step = 1,
                           !.steps = <<"harmonics">>]

\* lines 393-406: one pass of the while loop; with no positive input frequency
\* index is the empty list and line 405 raises IndexError
HarmonicPass(frame) ==
    IF InputFrequencies(frame.inputs) = <<>> THEN Finished(frame, <<>>, "IndexError")
    ELSE [frame EXCEPT !.target_frequencies =
                           Enumerated(InputFrequencies(frame.inputs), 0, frame.step, @),
                       !.step = @ + 1]

\* lines 407-423: after the loop.  1.0/n_inputs raises ZeroDivisionError without a
\* positive input frequency; subscripting the list of pairs with [0, 0] raises
\* TypeError, so that the time-domain steps of lines 424-443 are not reached
AfterHarmonics(frame) ==
    IF InputFrequencies(frame.inputs) = <<>>
    THEN Finished([frame EXCEPT !.target_frequencies = Truncated(Sorted(@), frame.N_time)],
                  <<>>, "ZeroDivisionError")
    ELSE Finished([frame EXCEPT !.target_frequencies = Truncated(Sorted(@), frame.N_time),
                                !.steps = Append(@, "mean_period")],
                  <<>>, "TypeError")

----------------------------------------------------------------------------
(* Material: the descriptions the model draws from *)

MiscSections ==
    { [name |-> "Copper", desc |-> "A metal"],
      [name |-> NoOption, desc |-> NoOption] }

ConductivitySection(ohmic, c, curve) == [ohmic |-> ohmic, conductivity |-> c, curve |-> curve]

ConductivitySections ==
    { ConductivitySection(NoOption, NoOption, NoOption),
      ConductivitySection(NoOption, NoOption, "[[0, 1], [0, 2]]"),
      ConductivitySection("True", "2", NoOption),
      ConductivitySection("yes", NoOption, "[[0, 1], [0, 2]]"),
      ConductivitySection("False", NoOption, "[[0, 1], [0, 2]]"),
      ConductivitySection("False", NoOption, NoOption),
      ConductivitySection("no", "2", NoOption),
      ConductivitySection("False", NoOption, "oops"),
      ConductivitySection("maybe", "2", NoOption) }

TypeSection(type, susceptibility, ja) ==
    [type |-> type, susceptibility |-> susceptibility, ja |-> ja]

ElectricalSections ==
    { TypeSection(NoOption, NoOption, NoOption),
      TypeSection(NoOption, "2", NoOption),
      TypeSection("dielectric", "1", NoOption),
      TypeSection("Dielectric", NoOption, NoOption),
      TypeSection("DIELECTRIC", "1", "params"),
      TypeSection("FerroElectric", NoOption, "params"),
      TypeSection("ferroelectric", "2", NoOption),
      TypeSection("Metal", "1", NoOption) }

MagneticSections ==
    { TypeSection(NoOption, NoOption, NoOption),
      TypeSection("diamagnetic", "1", NoOption),
      TypeSection("Diamagnetic", "-1", NoOption),
      TypeSection("Paramagnetic", "2", NoOption),
      TypeSection("paramagnetic", NoOption, NoOption),
      TypeSection("diamagnetic", "abc", NoOption),
      TypeSection("ferromagnetic", NoOption, "params"),
      TypeSection("Ferrimagnetic", NoOption, NoOption),
      TypeSection("AntiFerromagnetic", "2", "params"),
      TypeSection("nonmagnetic", "1", NoOption) }

Descriptions ==
    [misc : MiscSections, conductivity : ConductivitySections,
     electrical : ElectricalSections, magnetic : MagneticSections]

----------------------------------------------------------------------------
(* Material: the actions *)

NoCall == [name |-> "none", ret |-> Returned(CZero)]

MaterialUnused == material = NoMaterial /\ mcall = NoCall /\ bfield = IdleB

MaterialInit == MaterialUnused

\* Material(init)
NewMaterial(init) ==
    /\ material.state = "none"
    /\ material' = Material(init)
    /\ UNCHANGED <<mcall, bfield, circuitVars, fieldVars, deviceVars>>

\* an accessor may be called on a constructed Material; the model follows one call
CanCall == material.state = "constructed" /\ mcall.name = "none" /\ bfield.pc = "idle"

Accessed(name, ret) ==
    /\ mcall' = [name |-> name, ret |-> ret]
    /\ UNCHANGED <<material, bfield, circuitVars, fieldVars, deviceVars>>

Conductivity == CanCall /\ Accessed("conductivity", conductivity(material))

ElectricalSusceptibility ==
    CanCall /\ Accessed("electrical_susceptibility", electrical_susceptibility(material))

MagneticSusceptibility ==
    CanCall /\ Accessed("magnetic_susceptibility", magnetic_susceptibility(material))

ElectricalJAParameters ==
    CanCall /\ Accessed("electrical_JA_parameters", JA_parameters(material.electrical))

MagneticJAParameters ==
    CanCall /\ Accessed("magnetic_JA_parameters", JA_parameters(material.magnetic))

\* the applied H fields: the k-th phasor is Phasors[k], at a frequency of 0..MaxOmega
Phasors == <<CInt(1), CJ, Cx(1, 1, 1)>>

HInputs ==
    UNION {[1..n -> 0..MaxOmega] : n \in 0..MaxInputs}

HField(ws) == [k \in 1..Len(ws) |-> [H |-> Phasors[k], w |-> ws[k]]]

NTimes == 0..MaxNTime

\* calculate_B_field_from_H_field(inputs, N_time): the call
CalculateB(inputs, N_time) ==
    /\ CanCall
    /\ bfield' = BFieldStart(material, inputs, N_time)
    /\ UNCHANGED <<material, mcall, circuitVars, fieldVars, deviceVars>>

HarmonicStep ==
    /\ bfield.pc = "harmonics"
    /\ Len(bfield.target_frequencies) < bfield.N_time
    /\ bfield' = HarmonicPass(bfield)
    /\ UNCHANGED <<material, mcall, circuitVars, fieldVars, deviceVars>>

HarmonicsDone ==
    /\ bfield.pc = "harmonics"
    /\ Len(bfield.target_frequencies) >= bfield.N_time
    /\ bfield' = AfterHarmonics(bfield)
    /\ UNCHANGED <<material, mcall, circuitVars, fieldVars, deviceVars>>

calculate_B_field_from_H_field ==
    \/ \E ws \in HInputs, N_time \in NTimes : CalculateB(HField(ws), N_time)
    \/ HarmonicStep
    \/ HarmonicsDone

MaterialNext ==
    \/ \E init \in Descriptions : NewMaterial(init)
    \/ Conductivity
    \/ ElectricalSusceptibility
    \/ MagneticSusceptibility
    \/ ElectricalJAParameters
    \/ MagneticJAParameters
    \/ calculate_B_field_from_H_field

----------------------------------------------------------------------------
(* The coil constructors (field/coil.py, field/simple_coil.py,              *)
(* field/loop.py).  The float arguments are real rationals or NaN, which     *)
(* float() leaves as they are; an optional                                   *)
(* vector argument is None or a list of three numbers.                       *)

\* x < y; a comparison with NaN is False
RealLess(x, y) == ~IsNaN(x) /\ ~IsNaN(y) /\ x.re * y.den < y.re * x.den

Negative(x) == RealLess(x, CZero)

NoneVector == [none |-> TRUE, v |-> <<>>]

Vec3(x, y, z) == [none |-> FALSE, v |-> <<CInt(x), CInt(y), CInt(z)>>]

\* np.linalg.norm of a vector parallel to a coordinate axis
AxisNorm(v) == CInt(Abs(v[1].re) + Abs(v[2].re) + Abs(v[3].re))

\* lines 44-47: the unit vector of the axis, the z-axis by default; numpy divides a
\* zero vector by its norm 0 into NaN
Axis(axis) ==
    IF axis.none THEN Vec3(0, 0, 1).v
    ELSE [k \in 1..3 |-> NDiv(axis.v[k], AxisNorm(axis.v))]

\* lines 49-51
Center(center) == IF center.none THEN Vec3(0, 0, 0).v ELSE center.v

NoCoil ==
    [class |-> "none", status |-> "none", warnings |-> <<>>, radius |-> CZero, length |-> CZero,
     n_turns |-> CZero, wire_thickness |-> CZero, wire_radius |-> CZero, ohmic |-> TRUE,
     axis |-> <<>>, center |-> <<>>]

\* lines 37-51 of coil.py and simple_coil.py: the initial assignments
Assigned3(class, a) ==
    [NoCoil EXCEPT !.class = class, !.radius = a.radius, !.length = a.length,
                   !.n_turns = a.n_turns, !.wire_thickness = a.wire_thickness,
                   !.wire_radius = NDiv(a.wire_thickness, CInt(2)),
                   !.ohmic = material_is_ohmic(a.material).val,
                   !.axis = Axis(a.axis), !.center = Center(a.center)]

Warned(c, cond, text) == IF cond THEN [c EXCEPT !.warnings = Append(@, text)] ELSE c

\* lines 62-67: the three warnings, then the constructor returns
CoilWarnings(c) ==
    [Warned(Warned(Warned(c, RealLess(c.radius, c.wire_radius), "too tightly wound"),
                   RealLess(c.length, NMul(c.n_turns, c.wire_thickness)), "too tightly packed"),
            ~c.ohmic, "only supports Ohmic materials")
       EXCEPT !.status = "ok"]

\* the assertions refusing also a wire thicker than the coil
CoilChecked_RefusingOverlap(c) ==
    IF Negative(c.radius) \/ Negative(c.length) \/ Negative(c.n_turns)
       \/ Negative(c.wire_thickness) \/ RealLess(c.radius, c.wire_radius)
    THEN [c EXCEPT !.status = "RuntimeError"]
    ELSE CoilWarnings(c)

\* lines 54-61: the assertions
CoilChecked(c) ==
    IF Negative(c.radius) \/ Negative(c.length) \/ Negative(c.n_turns)
       \/ Negative(c.wire_thickness)
    THEN [c EXCEPT !.status = "RuntimeError"]
    ELSE CoilWarnings(c)

\* SimpleCoil(coil_radius, coil_length, n_turns, material, wire_thickness, axis, center)
SimpleCoil(a) == CoilChecked(Assigned3("SimpleCoil", a))

\* Coil(coil_radius, coil_length, n_turns, material, wire_thickness, axis, center)
Coil(a) == CoilChecked(Assigned3("Coil", a))

\* lines 49-56 of loop.py: a Loop has no length and no number of turns
LoopChecked(c) ==
    IF Negative(c.radius) \/ Negative(c.wire_thickness)
    THEN [c EXCEPT !.status = "RuntimeError"]
    ELSE [Warned(Warned(c, RealLess(c.radius, c.wire_radius), "too tightly wound"),
                 ~c.ohmic, "only supports Ohmic materials")
            EXCEPT !.status = "ok"]

\* Loop(radius, material, wire_thickness, axis, center)
Loop(a) ==
    LoopChecked([NoCoil EXCEPT !.class = "Loop", !.radius = a.radius,
                               !.wire_thickness = a.wire_thickness,
                               !.wire_radius = NDiv(a.wire_thickness, CInt(2)),
                               !.ohmic = material_is_ohmic(a.material).val,
                               !.axis = Axis(a.axis), !.center = Center(a.center)])

----------------------------------------------------------------------------
(* calculate_induced_voltage of SimpleCoil (simple_coil.py, lines 150-190)  *)
(* and Loop (loop.py, lines 120-157).  A position of the quadrature is kept  *)
(* in the coordinates of the coil: its offset z from the center along the    *)
(* axis and the square rho_sq of its distance from the axis.  The B field is *)
(* uniform, b along the axis, on data points whose convex hull is a box      *)
(* about the center of the coil: half_height along the axis, half_width      *)
(* across it.  The returned phasor is kept as a multiple of pi.              *)

N_SEGMENTS_RHO_SimpleCoil == 15

N_SEGMENTS_RHO_Loop == 20

N_SEGMENTS_RHO(c) ==
    IF c.class = "Loop" THEN N_SEGMENTS_RHO_Loop ELSE N_SEGMENTS_RHO_SimpleCoil

\* int(x) of a float: the fraction is dropped
Truncated_int(x) ==
    IF x.re >= 0 THEN x.re \div x.den ELSE 0 - ((0 - x.re) \div x.den)

\* np.linspace(start, stop, num)
linspace(start, stop, num) ==
    [k \in 1..num |->
        IF num = 1 THEN start
        ELSE NAdd(start, NDiv(NMul(CInt(k - 1), NSub(stop, start)), CInt(num - 1)))]

Squared(x) == NMul(x, x)

\* line 160 (loop.py line 130): rho_sqs
rho_sqs(c) == linspace(CZero, Squared(c.wire_radius), N_SEGMENTS_RHO(c))

\* line 165: z; a Loop has the one disk at its center
z_grid(c) ==
    IF c.class = "Loop" THEN <<CZero>>
    ELSE linspace(CNeg(c.length), c.length, Truncated_int(c.n_turns))

RealLeq(x, y) == ~IsNaN(x) /\ ~IsNaN(y) /\ x.re * y.den <= y.re * x.den

\* the position lies in the convex hull of the data points of B; phi = 0 is on the
\* grid of line 164, so that the ring of radius rho stays in the box only when rho
\* does not exceed the half width
InHull(B, z, rho_sq) ==
    /\ RealLeq(Squared(z), Squared(B.half_height))
    /\ RealLeq(rho_sq, Squared(B.half_width))

\* line 186 (loop.py line 153): the projections of B_field(area_elem_pos) on the axis for the disk at z
\* and the ring at rho, NaN when the interpolator is asked outside the hull
flux_elems(B, Z, R) ==
    [t \in 1..Len(Z) |-> [k \in 1..Len(R) |-> IF InHull(B, Z[t], R[k]) THEN B.b ELSE NaN]]

SomeNaN(flux) == \E t \in 1..Len(flux) : \E k \in 1..Len(flux[t]) : IsNaN(flux[t][k])

\* lines 187-190 (loop.py 154-157) for the uniform field: the sum over phi and the
\* disks gives integrands[k] = weight * len(z) * b * rho[k], with weight 4 pi for a
\* SimpleCoil and 2 pi for a Loop, and the trapezia over rho add up to
\* weight * len(z) * b * (rho[last]^2 - rho[first]^2) / 2
Integrated(c, flux, R) ==
    IF SomeNaN(flux) THEN NaN
    ELSE NMul(CInt(IF c.class = "Loop" THEN 1 ELSE 2 * Len(flux)),
              NMul(IF Len(flux) = 0 THEN CZero ELSE flux[1][1], NSub(R[Len(R)], R[1])))

IdleInduced ==
    [pc |-> "idle", ang_freq |-> 0, B |-> <<>>, rho_sqs |-> <<>>, z |-> <<>>, flux |-> <<>>,
     ret_over_pi |-> CZero]

\* calculate_induced_voltage(B_field, ang_freq)
calculate_induced_voltage(c, B, ang_freq) ==
    IF ang_freq = 0
    THEN [IdleInduced EXCEPT !.pc = "done", !.B = B]
    ELSE [pc |-> "done", ang_freq |-> ang_freq, B |-> B, rho_sqs |-> rho_sqs(c), z |-> z_grid(c),
          flux |-> flux_elems(B, z_grid(c), rho_sqs(c)),
          ret_over_pi |-> NMul(Cx(0, 0 - ang_freq, 1),
                               Integrated(c, flux_elems(B, z_grid(c), rho_sqs(c)), rho_sqs(c)))]

----------------------------------------------------------------------------
(* The calculation routine of the GUI (gui/calculation.py).  The             *)
(* configuration maps each key to the string its entry holds; the files      *)
(* that the material paths may name are fixed.                               *)

\* the contents of the material files
OhmicDescription ==
    [misc |-> [name |-> "Copper", desc |-> "A metal"],
     conductivity |-> ConductivitySection("True", "2", NoOption),
     electrical |-> TypeSection(NoOption, NoOption, NoOption),
     magnetic |-> TypeSection(NoOption, NoOption, NoOption)]

NonOhmicDescription ==
    [OhmicDescription EXCEPT !.conductivity = ConductivitySection("False", NoOption, NoOption)]

UnknownTypeDescription ==
    [OhmicDescription EXCEPT !.electrical = TypeSection("plasma", NoOption, NoOption)]

EmptyDescription ==
    [misc |-> [name |-> NoOption, desc |-> NoOption],
     conductivity |-> ConductivitySection(NoOption, NoOption, NoOption),
     electrical |-> TypeSection(NoOption, NoOption, NoOption),
     magnetic |-> TypeSection(NoOption, NoOption, NoOption)]

Paths == {"", "missing.cfg", "copper.cfg", "sample.cfg", "broken.cfg"}

\* os.path.isfile
isfile(path) == path \in {"copper.cfg", "sample.cfg", "broken.cfg"}

\* ConfigParser.read, which skips a file it cannot open
FileContents(path) ==
    CASE path = "copper.cfg" -> OhmicDescription
      [] path = "sample.cfg" -> NonOhmicDescription
      [] path = "broken.cfg" -> UnknownTypeDescription
      [] OTHER -> EmptyDescription

\* Material.read_from_file (material.py)
Material_read_from_file(input_file) == Material(FileContents(input_file))

\* the strings a numeric entry may hold
NumberStrings == {"2", "0", "-1", "2.5", "nan", "abc", ""}

\* float(s)
float(s) ==
    CASE s = "2" -> Returned(CInt(2))
      [] s = "0" -> Returned(CZero)
      [] s = "-1" -> Returned(CInt(-1))
      [] s = "2.5" -> Returned(Cx(5, 0, 2))
      [] s = "nan" -> Returned(NaN)
      [] OTHER -> Raised("ValueError")

\* int(s)
int(s) ==
    CASE s = "2" -> Returned(CInt(2))
      [] s = "0" -> Returned(CZero)
      [] s = "-1" -> Returned(CInt(-1))
      [] OTHER -> Raised("ValueError")

LengthKeys ==
    {"sample_radius", "sample_length", "sample_offset",
     "samplecoil_radius", "samplecoil_length", "samplecoil_offset", "samplecoil_thickness",
     "refcoil_radius", "refcoil_length", "refcoil_offset", "refcoil_thickness",
     "drivecoil_radius", "drivecoil_length", "drivecoil_thickness"}

QuantityKeys == LengthKeys \cup {"drivecoil_amp"}

FloatKeys == QuantityKeys \cup {"drivecoil_ang_freq"}

IntKeys ==
    {"samplecoil_nturns", "refcoil_nturns", "drivecoil_nturns",
     "npoints_r", "npoints_z", "npoints_t"}

MaterialKeys == {"sample_mat", "samplecoil_mat", "refcoil_mat", "drivecoil_mat"}

UnitsKey(k) == k \o "_units"

UnitKeys == {UnitsKey(k) : k \in QuantityKeys}

ConfigKeys == FloatKeys \cup IntKeys \cup MaterialKeys \cup UnitKeys

\* the units the comboboxes offer, of which the model takes two each
LengthUnits == {"m", "mm"}

CurrentUnits == {"A", "mA"}

\* Q_(x, units).to('m').magnitude and Q_(x, units).to('A').magnitude
Magnitude(x, units) ==
    IF units \in {"m", "A"} THEN x ELSE NMul(x, Cx(1, 0, 1000))

\* lines 84-114: the conversion of one entry
Parsed(config, k) == IF k \in IntKeys THEN int(config[k]) ELSE float(config[k])

\* lines 84-114: the value loaded from one entry
Value(config, k) ==
    IF k \in QuantityKeys
    THEN Magnitude(Parsed(config, k).val, config[UnitsKey(k)])
    ELSE Parsed(config, k).val

\* x <= 0.0, which is False for NaN
NonPositive(x) == ~IsNaN(x) /\ x.re <= 0

InvalidPath(config, k) == config[k] = "" \/ ~isfile(config[k])

InvalidValue(config, k) == NonPositive(Value(config, k))

\* lines 119-158: the entries checked, in the order of the checks
CheckOrder ==
    <<"sample_radius", "sample_length", "sample_mat",
      "samplecoil_radius", "samplecoil_length", "samplecoil_thickness", "samplecoil_nturns",
      "samplecoil_mat",
      "refcoil_radius", "refcoil_length", "refcoil_thickness", "refcoil_nturns", "refcoil_mat",
      "drivecoil_radius", "drivecoil_length", "drivecoil_thickness", "drivecoil_nturns",
      "drivecoil_mat",
      "npoints_r", "npoints_z">>

\* the message of each check
MessageOf(k) ==
    CASE k = "sample_radius" -> "Sample radius cannot be zero!"
      [] k = "sample_length" -> "Sample length cannot be zero!"
      [] k = "sample_mat" -> "Please specify sample material!"
      [] k = "samplecoil_radius" -> "Sample coil radius cannot be zero!"
      [] k = "samplecoil_length" -> "Sample coil length cannot be zero!"
      [] k = "samplecoil_thickness" -> "Sample coil wire thickness cannot be zero!"
      [] k = "samplecoil_nturns" -> "Sample coil must have at least one turn!"
      [] k = "samplecoil_mat" -> "Please specify sample coil wire material!"
      [] k = "refcoil_radius" -> "Reference coil radius cannot be zero!"
      [] k = "refcoil_length" -> "Reference coil length cannot be zero!"
      [] k = "refcoil_thickness" -> "Reference coil wire thickness cannot be zero!"
      [] k = "refcoil_nturns" -> "Reference coil must have at least one turn!"
      [] k = "refcoil_mat" -> "Please specify reference coil wire material!"
      [] k = "drivecoil_radius" -> "Drive coil radius cannot be zero!"
      [] k = "drivecoil_length" -> "Drive coil length cannot be zero!"
      [] k = "drivecoil_thickness" -> "Drive coil wire thickness cannot be zero!"
      [] k = "drivecoil_nturns" -> "Drive coil must have at least one turn!"
      [] k = "drivecoil_mat" -> "Please specify drive coil wire material!"
      [] k = "npoints_r" -> "No. of radial points cannot be zero!"
      [] k = "npoints_z" -> "No. of axial points cannot be zero!"

\* one check of lines 119-158
Invalid(config, k) ==
    IF k \in MaterialKeys THEN InvalidPath(config, k) ELSE InvalidValue(config, k)

\* lines 118-158: every failed check overwrites the message of the one before
error_message(config) ==
    IF \A i \in 1..Len(CheckOrder) : ~Invalid(config, CheckOrder[i]) THEN ""
    ELSE MessageOf(CheckOrder[CHOOSE i \in 1..Len(CheckOrder) :
                       /\ Invalid(config, CheckOrder[i])
                       /\ \A j \in (i + 1)..Len(CheckOrder) : ~Invalid(config, CheckOrder[j])])

\* the configuration of a calculation that runs to its end
Baseline ==
    [k \in ConfigKeys |->
        IF k = "sample_mat" THEN "sample.cfg"
        ELSE IF k \in MaterialKeys THEN "copper.cfg"
        ELSE IF k = "drivecoil_amp_units" THEN "A"
        ELSE IF k \in UnitKeys THEN "mm"
        ELSE "2"]

NoRun ==
    [pc |-> "idle", status |-> "none", exc |-> "none", events |-> <<>>,
     error_message |-> "", config |-> Baseline]

Event(r, e) == IF r.pc = "running" THEN [r EXCEPT !.events = Append(@, e)] ELSE r

Ended(r, status, exc) ==
    IF r.pc = "running" THEN [r EXCEPT !.pc = "done", !.status = status, !.exc = exc] ELSE r

\* lines 77-82: the pre-call functions run, then the configuration is fetched
Began(config, pre_calls) ==
    [NoRun EXCEPT !.pc = "running", !.config = config,
                  !.events = [k \in 1..pre_calls |-> "pre_call"]]

\* lines 84-114: float() and int() raise ValueError, which nothing catches
Loaded(r) ==
    IF \E k \in FloatKeys \cup IntKeys : ~Parsed(r.config, k).ok
    THEN Ended(r, "raised", "ValueError")
    ELSE r

\* lines 118-163: the verification, which reports the last message and returns
Verified(r) ==
    IF r.pc # "running" \/ error_message(r.config) = "" THEN r
    ELSE Ended(Event(Event([r EXCEPT !.error_message = error_message(r.config)], "print"),
                     "showerror"), "returned", "none")

MaterialOrder == <<"sample_mat", "samplecoil_mat", "refcoil_mat", "drivecoil_mat">>

\* lines 167-174: one Material.read_from_file, whose exception is reported
Read(r, k) ==
    IF Material_read_from_file(r.config[k]).state = "raised"
    THEN Ended(Event(Event(r, "Material"), "showerror"), "returned", "none")
    ELSE Event(r, "Material")

Converted(r) ==
    Read(Read(Read(Read(r, MaterialOrder[1]), MaterialOrder[2]), MaterialOrder[3]),
         MaterialOrder[4])

Offset(z) == [none |-> FALSE, v |-> <<CZero, CZero, z>>]

\* lines 179-181: the arguments of the three SimpleCoil constructions
CoilArgs(config, name, axis, center) ==
    [radius |-> Value(config, name \o "_radius"),
     length |-> Value(config, name \o "_length"),
     n_turns |-> Value(config, name \o "_nturns"),
     material |-> Material_read_from_file(config[name \o "_mat"]),
     wire_thickness |-> Value(config, name \o "_thickness"),
     axis |-> axis, center |-> center]

drivecoil(config) == SimpleCoil(CoilArgs(config, "drivecoil", NoneVector, NoneVector))

refcoil(config) ==
    SimpleCoil(CoilArgs(config, "refcoil", Vec3(0, 0, -1),
                        Offset(Value(config, "refcoil_offset"))))

samplecoil(config) ==
    SimpleCoil(CoilArgs(config, "samplecoil", NoneVector,
                        Offset(Value(config, "samplecoil_offset"))))

\* lines 178-184: one SimpleCoil construction, whose exception is reported
Built(r, c) ==
    IF c.status = "RuntimeError"
    THEN Ended(Event(Event(r, "SimpleCoil"), "showerror"), "returned", "none")
    ELSE Event(r, "SimpleCoil")

Wound(r) ==
    IF r.pc # "running" THEN r
    ELSE Built(Built(Built(r, drivecoil(r.config)), refcoil(r.config)), samplecoil(r.config))

\* lines 188-192: calculate_voltage is the caller's function; what it raises is not
\* caught, what it returns is shown
Calculated(r, voltage) ==
    IF voltage = "raises"
    THEN Ended(Event(r, "calculate_voltage"), "raised", "Exception")
    ELSE Ended(Event(Event(Event(r, "calculate_voltage"), "print"), "showinfo"),
               "returned", "none")

\* run_calculation with the configuration get_current_parameters returns
run_calculation(config, pre_calls, voltage) ==
    Calculated(Wound(Converted(Verified(Loaded(Began(config, pre_calls))))), voltage)

----------------------------------------------------------------------------
(* The coil constructors: inputs and actions *)

\* radii, lengths, numbers of turns and wire thicknesses
Lengths == {CInt(-1), CZero, CInt(1), CInt(3)}

CoilMaterials == {Material(OhmicDescription), Material(NonOhmicDescription)}

Axes == {NoneVector, Vec3(0, 0, -1), Vec3(0, 0, 2), Vec3(0, 0, 0)}

Centers == {NoneVector, Vec3(0, 0, 1)}

CoilArguments ==
    [radius : Lengths, length : Lengths, n_turns : Lengths, wire_thickness : Lengths,
     material : CoilMaterials, axis : Axes, center : Centers]

LoopArguments ==
    [radius : Lengths, wire_thickness : Lengths, material : CoilMaterials,
     axis : Axes, center : Centers]

DevicesUnused == coil = NoCoil /\ run = NoRun /\ induced = IdleInduced

DevicesInit == DevicesUnused

NewCoil(a) ==
    /\ coil.class = "none"
    /\ coil' = Coil(a)
    /\ UNCHANGED <<run, induced, circuitVars, fieldVars, materialVars>>

NewSimpleCoil(a) ==
    /\ coil.class = "none"
    /\ coil' = SimpleCoil(a)
    /\ UNCHANGED <<run, induced, circuitVars, fieldVars, materialVars>>

NewLoop(a) ==
    /\ coil.class = "none"
    /\ coil' = Loop(a)
    /\ UNCHANGED <<run, induced, circuitVars, fieldVars, materialVars>>

CoilNext ==
    \/ \E a \in CoilArguments : NewCoil(a)
    \/ \E a \in CoilArguments : NewSimpleCoil(a)
    \/ \E a \in LoopArguments : NewLoop(a)

\* the coils whose induced voltage is asked for: whole and fractional numbers of turns
Radii == {CZero, CInt(1), CInt(3)}

Turns == {CZero, CInt(1), Cx(5, 0, 2), CInt(3)}

Thicknesses == {CZero, CInt(1), CInt(2), CInt(6)}

PickupArguments ==
    [radius : Radii, length : Radii, n_turns : Turns, wire_thickness : Thicknesses,
     material : {Material(OhmicDescription)}, axis : {NoneVector, Vec3(0, 0, -1)},
     center : Centers]

PickupLoopArguments ==
    [radius : Radii, wire_thickness : Thicknesses, material : {Material(OhmicDescription)},
     axis : {NoneVector, Vec3(0, 0, -1)}, center : Centers]

\* the B fields: the hull of the data points is the box that just holds the coil
\* (radius across, length / 2 to each side of the center), or a box twice as large
BFields(c) ==
    { [half_width |-> NMul(CInt(m), c.radius),
       half_height |-> NMul(CInt(m), NDiv(c.length, CInt(2))), b |-> CInt(1)] : m \in 1..2 }

CalculateInducedVoltage ==
    /\ coil.class \in {"SimpleCoil", "Loop"}
    /\ coil.status = "ok"
    /\ induced.pc = "idle"
    /\ \E B \in BFields(coil), ang_freq \in 0..MaxFreq :
           induced' = calculate_induced_voltage(coil, B, ang_freq)
    /\ UNCHANGED <<coil, run, circuitVars, fieldVars, materialVars>>

PickupNext ==
    \/ \E a \in PickupArguments : NewSimpleCoil(a)
    \/ \E a \in PickupLoopArguments : NewLoop(a)
    \/ CalculateInducedVoltage

----------------------------------------------------------------------------
(* The calculation routine: inputs and actions *)

MaxPreCalls == 1

Entries(k) ==
    IF k \in MaterialKeys THEN Paths
    ELSE IF k = "drivecoil_amp_units" THEN CurrentUnits
    ELSE IF k \in UnitKeys THEN LengthUnits
    ELSE NumberStrings

\* the baseline with one entry changed
Changed(config) ==
    UNION {{[config EXCEPT ![k] = v] : v \in Entries(k)} : k \in ConfigKeys}

\* the configurations: the baseline with at most two entries changed
Configurations == UNION {Changed(config) : config \in Changed(Baseline)}

RunCalculation(config, pre_calls, voltage) ==
    /\ run' = run_calculation(config, pre_calls, voltage)
    /\ UNCHANGED <<coil, induced, circuitVars, fieldVars, materialVars>>

\* the model follows one press of the button
GuiNext ==
    /\ run.pc = "idle"
    /\ \E config \in Configurations, pre_calls \in 0..MaxPreCalls,
          voltage \in {"returns", "raises"} :
           RunCalculation(config, pre_calls, voltage)

----------------------------------------------------------------------------
(* The coil constructors: properties *)

C14_Constructing == coil.class \in {"Coil", "SimpleCoil", "Loop"}

C14_NegativeParameter ==
    \/ Negative(coil.radius)
    \/ Negative(coil.length)
    \/ Negative(coil.n_turns)
    \/ Negative(coil.wire_thickness)

C14_TightlyWound == RealLess(coil.radius, coil.wire_radius)

C14_TightlyPacked ==
    /\ coil.class # "Loop"
    /\ RealLess(coil.length, NMul(coil.n_turns, coil.wire_thickness))

\* the warnings a completed construction has emitted are exactly those of the
\* conditions that hold
C14_WarningsEmitted ==
    /\ InSeq("too tightly wound", coil.warnings) <=> C14_TightlyWound
    /\ InSeq("too tightly packed", coil.warnings) <=> C14_TightlyPacked
    /\ InSeq("only supports Ohmic materials", coil.warnings) <=> ~coil.ohmic

\* C14: the construction of a Coil, a SimpleCoil or a Loop raises an error exactly
\* when its radius, length, number of turns or wire thickness is negative; in every
\* other case it completes, and a wire radius above the radius, turns longer than
\* the length and a non-Ohmic material each emit only a warning.
C14_RaisesIffNegative ==
    C14_Constructing =>
        /\ coil.status = (IF C14_NegativeParameter THEN "RuntimeError" ELSE "ok")
        /\ coil.status = "RuntimeError" => coil.warnings = <<>>
        /\ coil.status = "ok" => C14_WarningsEmitted

\* a SimpleCoil completed although all three conditions held
C14_Witness ==
    /\ coil.class = "SimpleCoil"
    /\ coil.status = "ok"
    /\ C14_TightlyWound
    /\ C14_TightlyPacked
    /\ ~coil.ohmic
    /\ Len(coil.warnings) = 3

\* a construction refused for a negative parameter
C14_RaisedWitness ==
    /\ C14_Constructing
    /\ coil.status = "RuntimeError"
    /\ C14_NegativeParameter

----------------------------------------------------------------------------
(* The calculation routine: properties *)

\* radius, length, wire thickness and number of turns of the sample and the coils
C15_GeometricKeys ==
    {"sample_radius", "sample_length",
     "samplecoil_radius", "samplecoil_length", "samplecoil_thickness", "samplecoil_nturns",
     "refcoil_radius", "refcoil_length", "refcoil_thickness", "refcoil_nturns",
     "drivecoil_radius", "drivecoil_length", "drivecoil_thickness", "drivecoil_nturns"}

C15_NotANumber(k) == ~Parsed(run.config, k).ok \/ IsNaN(Parsed(run.config, k).val)

C15_AllParse == \A k \in FloatKeys \cup IntKeys : Parsed(run.config, k).ok

C15_SomeNonPositive == \E k \in C15_GeometricKeys : NonPositive(Value(run.config, k))

C15_SomeInvalidPath == \E k \in MaterialKeys : InvalidPath(run.config, k)

\* an error was reported and the routine returned with nothing constructed
C15_ReportedEarly ==
    /\ run.status = "returned"
    /\ InSeq("showerror", run.events)
    /\ ~InSeq("Material", run.events)
    /\ ~InSeq("SimpleCoil", run.events)
    /\ ~InSeq("calculate_voltage", run.events)

\* C15: whenever some geometric parameter of the configuration is non-positive or
\* not a valid number, or some material path is empty or names no existing file,
\* run_calculation reports an error and returns without raising, before any
\* Material or SimpleCoil is constructed and before calculate_voltage is called.
C15_ReportsEveryInvalid ==
    /\ run.pc = "done"
    /\ \A k \in (FloatKeys \cup IntKeys) \ C15_GeometricKeys : Parsed(run.config, k).ok
    /\ \/ \E k \in C15_GeometricKeys : C15_NotANumber(k)
       \/ C15_SomeNonPositive
       \/ C15_SomeInvalidPath
    => C15_ReportedEarly

\* the same for the configurations whose numeric entries all convert
C15_ReportsNonPositive ==
    /\ run.pc = "done"
    /\ C15_AllParse
    /\ C15_SomeNonPositive \/ C15_SomeInvalidPath
    => C15_ReportedEarly

\* an entry that does not convert ends the routine with an exception
C15_UnparsedRaises ==
    run.pc = "done" /\ ~C15_AllParse => run.status = "raised" /\ ~InSeq("showerror", run.events)

\* a non-positive radius next to an empty path was reported
C15_ReportedWitness ==
    /\ run.pc = "done"
    /\ C15_AllParse
    /\ C15_SomeNonPositive
    /\ C15_SomeInvalidPath
    /\ C15_ReportedEarly

\* a calculation that ran to its end
C15_CalculatedWitness ==
    /\ run.pc = "done"
    /\ run.status = "returned"
    /\ InSeq("showinfo", run.events)
    /\ Len(run.events) = MaxPreCalls + 10

----------------------------------------------------------------------------
(* Material: properties *)

ElectricalTypes == {"dielectric", "ferroelectric"}

MagneticTypes == {"diamagnetic", "ferromagnetic"}

\* the type a recognized type string stands for
C16_ElectricalKind(t) == casefold(t)

C16_MagneticKind(t) ==
    CASE casefold(t) = "paramagnetic" -> "diamagnetic"
      [] casefold(t) \in {"ferrimagnetic", "antiferromagnetic"} -> "ferromagnetic"
      [] OTHER -> casefold(t)

C16_UnknownType ==
    \/ material.init.electrical.type # NoOption
          /\ C16_ElectricalKind(material.init.electrical.type) \notin ElectricalTypes
    \/ material.init.magnetic.type # NoOption
          /\ C16_MagneticKind(material.init.magnetic.type) \notin MagneticTypes

\* C16: construction matches the type strings without regard to case, stores
\* paramagnetic as diamagnetic and ferrimagnetic/antiferromagnetic as ferromagnetic,
\* and aborts for any other type string; a constructed Material has an electrical
\* type in {dielectric, ferroelectric} and a magnetic type in {diamagnetic,
\* ferromagnetic}
C16_TypesNormalized ==
    /\ material.state = "constructed" =>
          /\ material.electrical.type \in ElectricalTypes
          /\ material.magnetic.type \in MagneticTypes
          /\ material.init.electrical.type # NoOption =>
                material.electrical.type = C16_ElectricalKind(material.init.electrical.type)
          /\ material.init.magnetic.type # NoOption =>
                material.magnetic.type = C16_MagneticKind(material.init.magnetic.type)
    /\ material.state # "none" =>
          /\ C16_UnknownType => material.state = "raised"
          /\ (material.state = "raised" /\ material.exc = "RuntimeError") => C16_UnknownType

\* type strings written with capitals, one of them a synonym, were accepted
C16_Witness ==
    /\ material.state = "constructed"
    /\ material.init.electrical.type = "FerroElectric"
    /\ material.init.magnetic.type = "AntiFerromagnetic"
    /\ material.electrical.type = "ferroelectric"
    /\ material.magnetic.type = "ferromagnetic"

\* a type string that is no type aborted the construction
C16_AbortWitness ==
    /\ material.state = "raised"
    /\ material.exc = "RuntimeError"
    /\ material.init.magnetic.type = "nonmagnetic"

\* the description lacks a field that the header of material.py marks compulsory
C17_LacksCompulsory ==
    \/ material.init.misc.name = NoOption
    \/ material.init.misc.desc = NoOption
    \/ material.init.conductivity.ohmic = NoOption
    \/ material.init.electrical.type = NoOption
    \/ material.init.magnetic.type = NoOption

C17_UnreadableValue ==
    \/ material.init.conductivity.ohmic # NoOption
          /\ material.init.conductivity.ohmic \notin (BooleanTrue \cup BooleanFalse)
    \/ material.init.conductivity.ohmic \in BooleanFalse
          /\ material.init.conductivity.curve \notin (CurveStrings \cup {NoOption})
    \/ C16_UnknownType

C18_Scalar(axis) ==
    CASE axis = "conductivity" -> material.conductivity.conductivity # NoOption
      [] axis = "electrical" -> material.electrical.susceptibility # NoOption
      [] axis = "magnetic" -> material.magnetic.susceptibility # NoOption

C18_Nonlinear(axis) ==
    CASE axis = "conductivity" -> material.conductivity_curve # NoAttribute
      [] axis = "electrical" -> material.electrical.ja # NoOption
      [] axis = "magnetic" -> material.magnetic.ja # NoOption

\* the kind of an axis is the linear one
C18_Linear(axis) ==
    CASE axis = "conductivity" -> material_is_ohmic(material).val
      [] axis = "electrical" -> is_dielectric(material)
      [] axis = "magnetic" -> is_magnetically_linear(material)

C18_Axes == {"conductivity", "electrical", "magnetic"}

C18_ExactlySelected(axis) ==
    /\ C18_Scalar(axis) <=> C18_Linear(axis)
    /\ C18_Nonlinear(axis) <=> ~C18_Linear(axis)

C18_NothingPopulated ==
    /\ material.state = "constructed"
    /\ is_dielectric(material)
    /\ ~C18_Scalar("electrical")
    /\ ~C18_Nonlinear("electrical")

\* the kind of the constructed Material matches the accessor that was called
C19_KindMatches ==
    CASE mcall.name = "conductivity" -> material_is_ohmic(material).val
      [] mcall.name = "electrical_susceptibility" -> is_dielectric(material)
      [] mcall.name = "magnetic_susceptibility" -> is_magnetically_linear(material)
      [] OTHER -> TRUE

C19_ScalarAccessors == {"conductivity", "electrical_susceptibility", "magnetic_susceptibility"}

\* C19: conductivity() fails when is_ohmic() is false, electrical_susceptibility()
\* fails when is_dielectric() is false, magnetic_susceptibility() fails when
\* is_magnetically_linear() is false; each returns only when the kind matches
C19_FailsOnOtherKind ==
    (mcall.name \in C19_ScalarAccessors /\ ~C19_KindMatches) => ~mcall.ret.ok

\* the option an accessor reads
C19_Option ==
    CASE mcall.name = "conductivity" -> material.conductivity.conductivity
      [] mcall.name = "electrical_susceptibility" -> material.electrical.susceptibility
      [] mcall.name = "magnetic_susceptibility" -> material.magnetic.susceptibility

\* what holds of the source: a scalar accessor returns exactly when its option is
\* stored and is a number, whatever the kind of the material
C19_ReturnsWhatIsStored ==
    mcall.name \in C19_ScalarAccessors =>
        /\ mcall.ret.ok <=> C19_Option \in FloatStrings
        /\ mcall.ret.ok => mcall.ret.val = CInt(FloatOf(C19_Option))

\* a call of calculate_B_field_from_H_field on a magnetically linear material with
\* a susceptibility, with N_time >= len(inputs) + 1, has ended
C13_Case ==
    /\ bfield.pc = "done"
    /\ is_magnetically_linear(material)
    /\ magnetic_susceptibility(material).ok
    /\ bfield.N_time >= Len(bfield.inputs) + 1

C13_Chi == magnetic_susceptibility(material).val

\* C13: for a magnetically linear material with susceptibility chi and
\* N_time >= len(inputs) + 1 the call returns one pair per input pair, in the order of
\* the inputs, with the frequency of the input and the phasor H + chi * H times
\* VACUUM_PERMEABILITY_SI; the harmonics are not enumerated, no time-domain step runs,
\* and N_time has no part in the result
C13_LinearShortcut ==
    C13_Case =>
        /\ bfield.exc = "none"
        /\ Len(bfield.ret) = Len(bfield.inputs)
        /\ \A k \in 1..Len(bfield.inputs) :
              /\ bfield.ret[k].w = bfield.inputs[k].w
              /\ bfield.ret[k].B.unit = VACUUM_PERMEABILITY_SI
              /\ bfield.ret[k].B.x = CAdd(bfield.inputs[k].H, CMul(C13_Chi, bfield.inputs[k].H))
        /\ bfield.steps = <<"linear">>
        /\ bfield.target_frequencies = <<>>

\* a paramagnetic material with chi = 2 answered two components given out of order
C13_Witness ==
    /\ C13_Case
    /\ C13_Chi = CInt(2)
    /\ Len(bfield.inputs) = 2
    /\ bfield.inputs[1].w > bfield.inputs[2].w
    /\ bfield.ret[1].w > bfield.ret[2].w
    /\ bfield.ret[2].B.x = Cx(0, 3, 1)

\* the same material answered one component with N_time above the least allowed
C13_LargerNTime ==
    /\ C13_Case
    /\ C13_Chi = CInt(2)
    /\ Len(bfield.inputs) = 1
    /\ bfield.N_time > 2
    /\ bfield.ret[1].B.x = CInt(3)

\* a nonlinear material was asked for the B field of inputs that passed the N_time
\* check, and the while loop of lines 392-406 is over
C24_Case ==
    /\ bfield.pc = "done"
    /\ ~is_magnetically_linear(material)
    /\ bfield.N_time >= Len(bfield.inputs) + 1

C24_Positive == InputFrequencies(bfield.inputs) # <<>>

RECURSIVE C24_Combined(_, _)
C24_Combined(n, freqs) ==
    IF freqs = <<>> THEN 0 ELSE n[1] * freqs[1] + C24_Combined(Tail(n), Tail(freqs))

\* the values sum n_i * w_i with every n_i drawn from coefficients
C24_Combinations(freqs, coefficients) ==
    {C24_Combined(n, freqs) : n \in [1..Len(freqs) -> coefficients]}

\* 0 and the positive combinations of order s: coefficients from -s to s
C24_UpToOrder(freqs, s) == {0} \cup {f \in C24_Combinations(freqs, (0 - s)..s) : f > 0}

\* the first order that offers N frequencies
C24_Order(freqs, N) ==
    CHOOSE s \in 1..N :
        /\ Cardinality(C24_UpToOrder(freqs, s)) >= N
        /\ \A r \in 1..(s - 1) : Cardinality(C24_UpToOrder(freqs, r)) < N

\* the N lowest members of S, ascending
C24_Lowest(S, N) ==
    [k \in 1..N |-> CHOOSE x \in S : Cardinality({y \in S : y < x}) = k - 1]

\* C24 as stated: the target frequencies are the N_time lowest values, ascending and
\* with 0, of the combinations of the input frequencies with non-negative integer
\* coefficients (coefficients above N_time cannot be among the N_time lowest)
C24_LowestNonNegativeCombinations ==
    C24_Case /\ C24_Positive =>
        bfield.target_frequencies =
            C24_Lowest(C24_Combinations(InputFrequencies(bfield.inputs), 0..bfield.N_time),
                       bfield.N_time)

\* C24: for a nonlinear material and inputs with a positive frequency, the target
\* frequencies are the N_time lowest values, ascending and with 0, among 0 and the
\* positive combinations of the positive input frequencies with integer coefficients
\* from -S to S, where S is the first order at which there are N_time such values
C24_LowestOfLowestOrder ==
    C24_Case /\ C24_Positive =>
        bfield.target_frequencies =
            C24_Lowest(C24_UpToOrder(InputFrequencies(bfield.inputs),
                                     C24_Order(InputFrequencies(bfield.inputs), bfield.N_time)),
                       bfield.N_time)

\* inputs at 2 and 3 with N_time = 3: the difference frequency 1 is a target, 3 is not
C24_Witness ==
    /\ C24_Case
    /\ InputFrequencies(bfield.inputs) = <<2, 3>>
    /\ bfield.N_time = 3
    /\ bfield.target_frequencies = <<0, 1, 2>>

\* one input at 2 with N_time = 3: the second pass of the loop supplies 4
C24_SecondOrderWitness ==
    /\ C24_Case
    /\ InputFrequencies(bfield.inputs) = <<2>>
    /\ bfield.N_time = 3
    /\ bfield.target_frequencies = <<0, 2, 4>>

\* C30: for a nonlinear material and every input list with N_time >= len(input) + 1,
\* inputs whose only component is DC included, the enumeration loop ends without
\* error and yields exactly N_time distinct target frequencies, the first being 0
C30_EnumerationYieldsNTime ==
    C24_Case =>
        /\ bfield.exc # "IndexError"
        /\ Len(bfield.target_frequencies) = bfield.N_time
        /\ Cardinality(Range(bfield.target_frequencies)) = bfield.N_time
        /\ bfield.target_frequencies[1] = 0

\* the same holds of the inputs that have a component of positive frequency
C30_YieldsNTimeWithPositive ==
    C24_Case /\ C24_Positive =>
        /\ bfield.exc # "IndexError"
        /\ Len(bfield.target_frequencies) = bfield.N_time
        /\ Cardinality(Range(bfield.target_frequencies)) = bfield.N_time
        /\ bfield.target_frequencies[1] = 0

\* without one the loop is entered when N_time > 1, and line 405 raises IndexError
C30_FailsWithoutPositive ==
    C24_Case /\ ~C24_Positive /\ bfield.N_time > 1 =>
        bfield.exc = "IndexError" /\ bfield.target_frequencies = <<0>>

\* a DC component alone, N_time = 2
C30_DCOnlyWitness ==
    /\ C24_Case
    /\ Len(bfield.inputs) = 1
    /\ bfield.inputs[1].w = 0
    /\ bfield.N_time = 2
    /\ bfield.exc = "IndexError"

\* every pass of the while loop adds a frequency: it runs at most N_time - 1 times
C30_PassesBounded ==
    bfield.pc = "harmonics" =>
        bfield.step <= Len(bfield.target_frequencies) /\ bfield.step <= bfield.N_time

----------------------------------------------------------------------------
(* Properties of the interpolator cache and of the operands *)

C27_Mutations == {"add_data_points", "iadd", "isub", "imul", "itruediv"}

\* the cached interpolator, when there is one, was built from the data now stored
C27_CacheCurrent ==
    ~interp.none => interp.points = points.rows /\ interp.values = values

\* a mutation that returns leaves no interpolator behind
C27_MutationResets ==
    last'.op \in C27_Mutations /\ last'.count = last.count + 1 /\ last'.status = "ok"
        => interp'.none

\* an evaluation that returns leaves the interpolator of the data as it is then
C27_EvaluationRebuilds ==
    last'.op = "call" /\ last'.status = "ok"
        => /\ ~interp'.none
           /\ interp'.points = points'.rows
           /\ interp'.values = values'
           /\ points' = points /\ values' = values

\* C27: in every reachable state of a VectorField a cached interpolator (interp is
\* not None) was built from the current points and values: every mutation
\* (add_data_points, +=, -=, *=, /=) resets the cache and the next evaluation
\* rebuilds it from the current data
C27_CacheNeverStale ==
    /\ [](C27_CacheCurrent)
    /\ [][C27_MutationResets]_vars
    /\ [][C27_EvaluationRebuilds]_vars

\* an in-place operator with a field found an interpolator, changed the values and
\* reset it
C27_ResetWitness ==
    /\ last.op \in {"iadd", "isub", "imul", "itruediv"}
    /\ last.status = "ok"
    /\ last.other.kind = "field"
    /\ ~last.before.interp.none
    /\ last.before.values # values
    /\ interp.none

\* an evaluation after a mutation built the interpolator anew
C27_RebuiltWitness ==
    /\ last.op = "call"
    /\ last.status = "ok"
    /\ last.count > 0
    /\ last.before.interp.none
    /\ ~interp.none

\* add_data_points returned: the positions and value rows it was given, as formatted
C29_Added == last.op = "add_data_points" /\ last.status = "ok"

C29_NewPoints == last.other.vec

C29_NewValues == ForceValues(Len(last.other.vec), last.other.vals).rows

C29_StoredBefore(p) == ~last.before.points.none /\ p \in Range(last.before.points.rows)

\* C29: when add_data_points is given a position equal to one already stored, or
\* repeated within the batch, the field keeps a single entry for that position, with
\* the earliest-stored value: the one stored before the call, else the first of the
\* batch; a later value is discarded, neither averaged nor written over the earlier
C29_EarliestValueKept ==
    C29_Added =>
        /\ Cardinality(Range(points.rows)) = Len(points.rows)
        /\ Cardinality(Pairs(Self)) = Len(points.rows)
        /\ Range(points.rows) =
              Range(C29_NewPoints) \cup
              (IF last.before.points.none THEN {} ELSE Range(last.before.points.rows))
        /\ Pairs(last.before) \subseteq Pairs(Self)
        /\ \A j \in 1..Len(C29_NewPoints) :
              (/\ ~C29_StoredBefore(C29_NewPoints[j])
               /\ \A i \in 1..(j - 1) : C29_NewPoints[i] # C29_NewPoints[j])
              => <<C29_NewPoints[j], C29_NewValues[j]>> \in Pairs(Self)

\* PosA was stored, the batch gave it another value: the stored value stayed
C29_Witness ==
    /\ C29_Added
    /\ C29_NewPoints = <<PosF, PosA>>
    /\ C29_StoredBefore(PosA)
    /\ <<PosA, C29_NewValues[2]>> \notin Pairs(last.before)
    /\ <<PosA, C29_NewValues[2]>> \notin Pairs(Self)
    /\ Len(points.rows) = Len(last.before.points.rows) + 1

\* the batch gave PosF twice with two values: the first is stored
C29_RepeatedWitness ==
    /\ C29_Added
    /\ C29_NewPoints = <<PosF, PosF>>
    /\ C29_NewValues[1] # C29_NewValues[2]
    /\ <<PosF, C29_NewValues[1]>> \in Pairs(Self)
    /\ <<PosF, C29_NewValues[2]>> \notin Pairs(Self)

C28_Pure ==
    {"add", "sub", "mul", "truediv", "matmul", "radd", "rsub", "rmul", "rmatmul", "rtruediv",
     "conj", "neg", "pos", "abs"}

C28_SameData(f, g) == f.points = g.points /\ f.values = g.values /\ f.ndims = g.ndims

\* C28: the pure operators (+, -, *, /, @ and their reflected forms, conj, neg, pos,
\* abs) return a brand-new VectorField (one fresh from the constructor, with no
\* interpolator built) and leave the points, values and ndims of self and of a
\* VectorField operand unchanged, whether they return or raise
C28_OperandsUnchanged ==
    last.op \in C28_Pure =>
        /\ C28_SameData(Self, last.before)
        /\ last.other.kind = "field" => C28_SameData(last.otherAfter, last.other.f)
        /\ last.status = "ok" => last.result.interp.none

\* the sum of two fields with values: both have their interpolator built by the
\* call, the result holds other values than self and has none
C28_Witness ==
    /\ last.op = "add"
    /\ last.status = "ok"
    /\ last.other.kind = "field"
    /\ ~interp.none
    /\ ~last.otherAfter.interp.none
    /\ last.result.values # values
    /\ last.result.interp.none

\* the negation of a field with values
C28_NegWitness ==
    /\ last.op = "neg"
    /\ last.status = "ok"
    /\ ~values.none
    /\ last.result.values # values
    /\ last.result.points = points

\* the norm of a field of two dimensions is a field of one
C28_AbsWitness ==
    /\ last.op = "abs"
    /\ last.status = "ok"
    /\ ndims = 2
    /\ last.result.ndims = 1

\* a vector times self, by the reflected method
C28_ReflectedWitness ==
    /\ last.op = "rmatmul"
    /\ last.status = "ok"
    /\ last.other.vec = <<CInt(1), CJ>>
    /\ last.result.ndims = 1

----------------------------------------------------------------------------
(* Properties of calculate_induced_voltage *)

\* a SimpleCoil or Loop was asked for the voltage induced at a frequency other than 0
C25_Integrated == induced.pc = "done" /\ induced.ang_freq # 0

C25_Last(sq) == sq[Len(sq)]

\* C25: calculate_induced_voltage of SimpleCoil and Loop integrates over the full
\* disk of each loop: rho runs from 0 to the radius of the coil or loop, and a
\* SimpleCoil has int(n_turns) disks
C25_IntegratesFullDisk ==
    C25_Integrated =>
        /\ induced.rho_sqs[1] = CZero
        /\ C25_Last(induced.rho_sqs) = Squared(coil.radius)
        /\ coil.class = "SimpleCoil" => Len(induced.z) = Truncated_int(coil.n_turns)

\* what the quadrature covers: rho runs from 0 to the radius of the wire, in
\* N_SEGMENTS_RHO values with rho squared evenly spaced; the number of disks is as stated
C25_IntegratesWireDisk ==
    C25_Integrated =>
        /\ Len(induced.rho_sqs) = N_SEGMENTS_RHO(coil)
        /\ induced.rho_sqs[1] = CZero
        /\ C25_Last(induced.rho_sqs) = Squared(coil.wire_radius)
        /\ \A k \in 2..Len(induced.rho_sqs) :
              NSub(induced.rho_sqs[k], induced.rho_sqs[k - 1]) = induced.rho_sqs[2]
        /\ coil.class = "SimpleCoil" => Len(induced.z) = Truncated_int(coil.n_turns)
        /\ coil.class = "Loop" => induced.z = <<CZero>>

\* a Loop of radius 3 and wire of diameter 2 in a uniform field whose hull holds it:
\* the phasor returned is -j * pi * 1, the flux through a disk of radius 1
C25_LoopWitness ==
    /\ C25_Integrated
    /\ coil.class = "Loop"
    /\ coil.radius = CInt(3)
    /\ coil.wire_radius = CInt(1)
    /\ C25_Last(induced.rho_sqs) = CInt(1)
    /\ induced.ret_over_pi = Cx(0, -1, 1)

\* a SimpleCoil of two and a half turns has two disks
C25_TurnsWitness ==
    /\ C25_Integrated
    /\ coil.class = "SimpleCoil"
    /\ coil.n_turns = Cx(5, 0, 2)
    /\ Len(induced.z) = 2

C26_Case == C25_Integrated /\ coil.class = "SimpleCoil"

\* the hull of the data points of the B field contains the coil
C26_HullContainsCoil ==
    /\ RealLeq(coil.radius, induced.B.half_width)
    /\ RealLeq(NDiv(coil.length, CInt(2)), induced.B.half_height)

\* C26: every position at which SimpleCoil.calculate_induced_voltage evaluates the
\* field lies inside the coil (within length / 2 of the center along the axis, no
\* farther than the radius from the axis), so that a field whose hull contains the
\* coil returns no NaN to the flux sum
C26_EvaluatesInsideCoil ==
    C26_Case =>
        /\ \A t \in 1..Len(induced.z) :
              RealLeq(Squared(induced.z[t]), Squared(NDiv(coil.length, CInt(2))))
        /\ \A k \in 1..Len(induced.rho_sqs) :
              RealLeq(induced.rho_sqs[k], Squared(coil.radius))
        /\ C26_HullContainsCoil => ~SomeNaN(induced.flux) /\ ~IsNaN(induced.ret_over_pi)

\* where the positions do lie: within the whole length of the center along the axis,
\* with the first disk at -length, and no farther than the wire radius from the axis
C26_EvaluatesWithinLength ==
    C26_Case =>
        /\ \A t \in 1..Len(induced.z) :
              RealLeq(Squared(induced.z[t]), Squared(coil.length))
        /\ Len(induced.z) > 0 => induced.z[1] = CNeg(coil.length)
        /\ \A k \in 1..Len(induced.rho_sqs) :
              RealLeq(induced.rho_sqs[k], Squared(coil.wire_radius))

\* a coil of length 1 and radius 3 with one turn of thin wire, in a field whose hull
\* is the box that holds the coil: the one disk is at -1 and the result is NaN
C26_OutsideWitness ==
    /\ C26_Case
    /\ coil.length = CInt(1)
    /\ coil.radius = CInt(3)
    /\ coil.wire_radius = CZero
    /\ C26_HullContainsCoil
    /\ induced.z = <<CInt(-1)>>
    /\ IsNaN(induced.ret_over_pi)

----------------------------------------------------------------------------
(* Specifications *)

\* a program that constructs a Circuit and no VectorField
InitCircuit == CircuitInit /\ FieldUnused /\ MaterialUnused /\ DevicesUnused

\* a program that constructs a VectorField and no Circuit
InitField == FieldInit /\ CircuitUnused /\ MaterialUnused /\ DevicesUnused

\* a program that constructs a Material
InitMaterial == MaterialInit /\ CircuitUnused /\ FieldUnused /\ DevicesUnused

\* a Circuit: construction, add_element, calculate_current
SpecCircuit == InitCircuit /\ [][CircuitNext]_vars

\* a VectorField: construction, add_data_points, evaluation, the in-place operators, files
SpecField == InitField /\ [][FieldNext]_vars

\* a VectorField and the operators that return a new field
SpecFieldAlgebra == InitField /\ [][AlgebraNext]_vars

\* a program that solves circuits with the Newton-Raphson loop
InitNewton == NewtonInit /\ FieldUnused /\ MaterialUnused /\ DevicesUnused

\* a program that constructs a SimpleCoil or a Loop and asks for its induced voltage
InitPickup == DevicesInit /\ CircuitUnused /\ FieldUnused /\ MaterialUnused

SpecPickup == InitPickup /\ [][PickupNext]_vars

\* a program that constructs a coil
InitCoil == DevicesInit /\ CircuitUnused /\ FieldUnused /\ MaterialUnused

\* a Material: construction, the accessors, calculate_B_field_from_H_field
SpecMaterial == InitMaterial /\ [][MaterialNext]_vars

\* a program whose user starts the calculation
InitGui == DevicesInit /\ CircuitUnused /\ FieldUnused /\ MaterialUnused /\ coil = NoCoil

\* the constructors of Coil, SimpleCoil and Loop
SpecCoil == InitCoil /\ [][CoilNext]_vars

\* run_calculation of the calculation sub-menu
SpecGui == InitGui /\ [][GuiNext]_vars

\* the Newton-Raphson loop of calculate_current
SpecNewton == InitNewton /\ [][NewtonNext]_vars

====
